---- MODULE Spec2Model ----
(***************************************************************************)
(* Fraud decision engine: rule cache of the rule engine, the decision      *)
(* pipeline (use case + domain service + aggregator) and the fraud-case    *)
(* state machine, modelled from the Go sources.                            *)
(*                                                                         *)
(* The specifications of the module share one set of variables:            *)
(*   SpecCache    rules.Engine rule cache against concurrent rule writers  *)
(*   SpecRefresh  the same, over PostgreSQL or the mock rule repository    *)
(*   SpecCase     fraud cases: coordinator and investigator operations     *)
(*   SpecPipe     DetectFraudUseCase.Execute end to end                    *)
(*   SpecStream   successive requests of one user and their recorders      *)
(*   SpecHandler  FraudHandler.AnalyzeTransaction: decode, ToInput, Execute*)
(*   SpecWindow   VelocityCache over one user's sorted set                 *)
(*   SpecScore    rule evaluation and score aggregation as functions       *)
(*   SpecWired    the same under main's wiring, one rule per family        *)
(*   SpecActive   Rule.IsActive against RuleRepository.ListActive          *)
(*   SpecBoot     config.Load and main's wiring of the thresholds          *)
(*   SpecGeo      Engine.evaluateGeographicRule over travel from the last  *)
(*                transaction's location                                   *)
(*   SpecRecorder the state-recording goroutine Execute launches, against  *)
(*                a window store that may never answer (with fairness)     *)
(*   SpecDecisions DecisionRepository: Create and GetByTransactionID       *)
(***************************************************************************)
EXTENDS Integers, Sequences, FiniteSets, TLC

\* ------------------------------------------------------------------ bounds
MaxWrites == 2      \* rule-repository writes explored in SpecCache
MaxOps == 3         \* investigator calls (assign/resolve/close/escalate) explored in SpecCase
MaxReq == 1         \* analyze requests explored in SpecPipe
ExtraGeoRules == 5  \* geographic rules added to the rules table in SpecPipe
MaxTx == 2          \* coordinator triggers (transaction ids) explored in SpecCase
MaxStream == 3      \* analyze requests explored in SpecStream
MaxRuleList == 2    \* length of the active rule list explored in SpecScore
MaxDecisions == 3   \* decisions written in SpecDecisions
MaxRefreshes == 2   \* ListActive calls counted per expiry of the rule cache

\* ------------------------------------------------------- program constants
DefaultMaxTransactions == 10     \* parseVelocityConfig: MaxTransactions default
SeededMaxTransactions == 5       \* seedDefaultRules: high_velocity max_transactions
SeededMaxAmount == 5000          \* seedDefaultRules: high_amount max_amount
SeededMaxDevices == 5            \* seedDefaultRules: new_device max_devices_per_user
SeededDeviationFactor == 5       \* seedDefaultRules: high_amount deviation_factor
RuleWeight == 15                 \* getWeightForRule: 0.15, in units of 1e-2
BlockThreshold == 80             \* config defaults: block_threshold 0.80
ReviewThreshold == 60            \* config defaults: review_threshold 0.60
ChallengeThreshold == 40         \* config defaults: challenge_threshold 0.40
RedisReadTimeout == 3            \* config.DefaultConfig: Redis.ReadTimeout, seconds
JetSpeedKmH == 900               \* evaluateGeographicRule: speedKmH > 900
cacheTTL == 5       \* minutes: rules.NewEngine sets cacheTTL = 5 * time.Minute

\* A rule list value: the nil slice, an error, or a fetched list.
NIL == [kind |-> "nil", rules |-> {}, gen |-> 0]
ERR == [kind |-> "err", rules |-> {}, gen |-> 0]
NONE == "none"

RuleIds == {"ra", "rb"}
Readers == {"r1", "r2"}          \* goroutines calling Engine.GetActiveRules / Evaluate
EngineCallers == {"m1"}          \* goroutines calling Engine.AddRule/UpdateRule/DisableRule
ServiceCallers == {"s1"}         \* goroutines calling Service.CreateRule/UpdateRule/...
CacheProcs == Readers \cup EngineCallers \cup ServiceCallers

Max(a, b) == IF a >= b THEN a ELSE b
Min(a, b) == IF a <= b THEN a ELSE b

VARIABLES
    \* ---- rule repository and rule cache (SpecCache)
    ruleStore,      \* fraud_rules table: RuleIds -> [present, enabled, version]
    repoWrites,     \* history: number of successful rule-repository writes so far
    rulesCache,     \* Engine.rulesCache: NIL or [rules, gen] (gen = repoWrites at fetch)
    sinceRefresh,   \* time.Since(Engine.lastRefresh) in minutes, saturating at cacheTTL
    rulesMu,        \* Engine.rulesMu: NONE or the goroutine holding the write lock
    cpc,            \* position of every goroutine of SpecCache
    fetched,        \* Readers -> the ListActive result held between fetch and store
    wgen,           \* writer -> repoWrites right after its own write
    engineDone,     \* history: highest write generation whose Engine mutator has returned
    serviceDone,    \* history: highest write generation whose Service rule write has returned
    need,           \* Readers -> [engine, service]: generations returned before the read started
    got,            \* history: Readers -> generation of the list the read returned (-1: none)
    refreshes       \* history: ListActive calls that returned a list since the cache
                    \* last expired or was invalidated (saturating at MaxRefreshes)

cacheVars == <<ruleStore, repoWrites, rulesCache, sinceRefresh, rulesMu, cpc,
               fetched, wgen, engineDone, serviceDone, need, got, refreshes>>

VARIABLES
    \* ---- fraud cases (SpecCase)
    cases,          \* fraud_cases table: sequence of rows, the row's index is its id
    kst,            \* goroutine -> the call it is running and what it has loaded
    lastCall,       \* history: [op, res] of the case call that returned last
    nextOp,         \* number of investigator calls started so far, plus one
    nextTx          \* next unused transaction id

caseVars == <<cases, kst, lastCall, nextOp, nextTx>>

VARIABLES
    dbUp,           \* main: PostgreSQL reachable at boot (else the Mock* repositories)
    redisUp,        \* main: Redis reachable at boot (else the three caches are nil)
    activeRules,    \* which rules table the engine's repository lists (see RulesTable)
    window,         \* VelocityCache: user -> transaction ids in the sorted set
    devices,        \* DeviceCache: user -> device ids
    locations,      \* LocationCache: user -> countries
    decisions,      \* the decisions table: sequence of persisted decisions
    pending,        \* detached state-recording goroutines that have not run yet
    reqs,           \* number of requests handled so far
    last            \* history: the last request, its faults and its outcome

pipeVars == <<dbUp, redisUp, activeRules, window, devices, locations, decisions,
              pending, reqs, last>>

VARIABLES
    \* ---- process start-up (SpecBoot)
    bootPc,         \* main: "start", "loaded", "serving"
    cfg,            \* main: cfg.Fraud thresholds after config.Load / DefaultConfig
    thresholds,     \* Service.decisionThresholds
    served          \* history: [score, decision] of the last score the service decided

bootVars == <<bootPc, cfg, thresholds, served>>

VARIABLES
    \* ---- the velocity sorted set of one user (SpecWindow)
    zset,           \* Redis key velocity:user:<id>: entries [tx, amount, score]
    zlast           \* history: the last RecordTransaction call, counts and sums around it

windowVars == <<zset, zlast>>

VARIABLES
    \* ---- evaluation and aggregation of one request (SpecScore)
    scoreIn,        \* the active rules, the request, the store's count, weights, strategy
    scoreOut        \* what Engine.Evaluate and Service.AnalyzeTransaction computed

scoreVars == <<scoreIn, scoreOut>>

VARIABLES
    \* ---- one rule's activity window against the clock (SpecActive)
    ruleRow,        \* a fraud_rules row: [enabled, effectiveAt, expiresAt]
    now,            \* time.Now() of the check
    activeOut       \* [done, isActive, listed]: Rule.IsActive and ListActive at now

activeVars == <<ruleRow, now, activeOut>>

VARIABLES
    \* ---- the HTTP handler of POST /api/v1/fraud/analyze (SpecHandler)
    httpReq         \* the decoded AnalyzeTransactionRequest and its number

httpVars == <<httpReq>>

VARIABLES
    \* ---- one evaluation of a geographic rule (SpecGeo)
    geoIn,          \* the rule, the request's country, the last transaction, the store
    geoOut          \* [done, result]: what Engine.evaluateGeographicRule returned

geoVars == <<geoIn, geoOut>>

VARIABLES
    \* ---- the goroutine Execute launches to record state (SpecRecorder)
    recIn,          \* the input's device and location, the caches, the Redis client
    rec             \* the goroutine: [pc, calls, requestCtx]

recVars == <<recIn, rec>>

VARIABLES
    \* ---- the decisions table behind DecisionRepository (SpecDecisions)
    decisionRows,   \* rows [id, tx, decision] in the order they were written
    lookup          \* history: the last GetByTransactionID call and what it returned

decVars == <<decisionRows, lookup>>

auxVars == <<bootVars, windowVars, scoreVars, activeVars, httpVars, geoVars, recVars, decVars>>

vars == <<cacheVars, caseVars, pipeVars, auxVars>>

\* ------------------------------------------------------------------------
\* Rule repository (postgres.RuleRepository)
\* ------------------------------------------------------------------------
AbsentRule == [present |-> FALSE, enabled |-> FALSE, version |-> 0]

\* RuleRepository.Create: INSERT; a duplicate primary key is an error.
RepoCreate(store, id) ==
    [store EXCEPT ![id] = [present |-> TRUE, enabled |-> TRUE, version |-> 1]]

\* RuleRepository.Update: UPDATE ... WHERE id = ?; writes the caller's fields,
\* zero rows affected is not an error.
RepoUpdate(store, id, enabled, version) ==
    IF store[id].present
    THEN [store EXCEPT ![id] = [present |-> TRUE, enabled |-> enabled, version |-> version]]
    ELSE store

\* RuleRepository.Disable: UPDATE enabled = false WHERE id = ?
RepoDisable(store, id) ==
    IF store[id].present THEN [store EXCEPT ![id].enabled = FALSE] ELSE store

\* RuleRepository.ListActive: enabled rows (all rows of the model are inside
\* their effective window).
ListActive(store) == {id \in RuleIds : store[id].present /\ store[id].enabled}

\* ------------------------------------------------------------------------
\* rules.Engine: read-through rule cache
\* ------------------------------------------------------------------------
\* e.rulesCache != nil && time.Since(e.lastRefresh) < e.cacheTTL
CacheValid == rulesCache.kind # "nil" /\ sinceRefresh < cacheTTL

\* What e.ruleRepo.ListActive returns. postgres.RuleRepository builds the list
\* with make([]*fraud.Rule, len(models)): never nil. MockRuleRepository (main
\* without PostgreSQL) declares var results []*fraud.Rule and appends the
\* active rules: the nil slice when no rule is active.
Snapshot ==
    [kind |-> IF ~dbUp /\ ListActive(ruleStore) = {} THEN "nil" ELSE "list",
     rules |-> ListActive(ruleStore), gen |-> repoWrites]

\* A caller enters GetActiveRules (Evaluate starts with it).
StartRead(p) ==
    /\ UNCHANGED <<caseVars, pipeVars, auxVars>>
    /\ cpc[p] = "idle"
    /\ cpc' = [cpc EXCEPT ![p] = "rlock"]
    /\ need' = [need EXCEPT ![p] = [engine |-> engineDone, service |-> serviceDone]]
    /\ got' = [got EXCEPT ![p] = -1]
    /\ UNCHANGED <<ruleStore, repoWrites, rulesCache, sinceRefresh, rulesMu,
                   fetched, wgen, engineDone, serviceDone, refreshes>>

\* RLock; cache check; RUnlock: hit returns the cached slice, miss goes on to Lock.
ReadLocked(p) ==
    /\ UNCHANGED <<caseVars, pipeVars, auxVars>>
    /\ cpc[p] = "rlock"
    /\ rulesMu = NONE
    /\ IF CacheValid
       THEN /\ got' = [got EXCEPT ![p] = rulesCache.gen]
            /\ cpc' = [cpc EXCEPT ![p] = "idle"]
       ELSE /\ got' = got
            /\ cpc' = [cpc EXCEPT ![p] = "wlock"]
    /\ UNCHANGED <<ruleStore, repoWrites, rulesCache, sinceRefresh, rulesMu,
                   fetched, wgen, engineDone, serviceDone, need, refreshes>>

\* Lock; double-check after acquiring the write lock.
WriteLocked(p) ==
    /\ UNCHANGED <<caseVars, pipeVars, auxVars>>
    /\ cpc[p] = "wlock"
    /\ rulesMu = NONE
    /\ IF CacheValid
       THEN /\ got' = [got EXCEPT ![p] = rulesCache.gen]
            /\ cpc' = [cpc EXCEPT ![p] = "idle"]
            /\ rulesMu' = NONE
       ELSE /\ got' = got
            /\ cpc' = [cpc EXCEPT ![p] = "fetch"]
            /\ rulesMu' = p
    /\ UNCHANGED <<ruleStore, repoWrites, rulesCache, sinceRefresh,
                   fetched, wgen, engineDone, serviceDone, need, refreshes>>

\* rules, err := e.ruleRepo.ListActive(ctx), with the write lock held. The
\* mock repository never returns an error.
Fetch(p) ==
    /\ UNCHANGED <<caseVars, pipeVars, auxVars>>
    /\ cpc[p] = "fetch"
    /\ rulesMu = p
    /\ \E ok \in IF dbUp THEN BOOLEAN ELSE {TRUE} :
         IF ok
         THEN /\ fetched' = [fetched EXCEPT ![p] = Snapshot]
              /\ cpc' = [cpc EXCEPT ![p] = "store"]
              /\ refreshes' = Min(refreshes + 1, MaxRefreshes)
              /\ UNCHANGED <<got, rulesMu>>
         ELSE /\ got' = [got EXCEPT ![p] = -1]
              /\ cpc' = [cpc EXCEPT ![p] = "idle"]
              /\ rulesMu' = NONE
              /\ UNCHANGED <<fetched, refreshes>>
    /\ UNCHANGED <<ruleStore, repoWrites, rulesCache, sinceRefresh,
                   wgen, engineDone, serviceDone, need>>

\* e.rulesCache = rules; e.lastRefresh = time.Now(); return (deferred Unlock).
Store(p) ==
    /\ UNCHANGED <<caseVars, pipeVars, auxVars>>
    /\ cpc[p] = "store"
    /\ rulesMu = p
    /\ rulesCache' = fetched[p]
    /\ sinceRefresh' = 0
    /\ got' = [got EXCEPT ![p] = fetched[p].gen]
    /\ fetched' = [fetched EXCEPT ![p] = NIL]
    /\ rulesMu' = NONE
    /\ cpc' = [cpc EXCEPT ![p] = "idle"]
    /\ UNCHANGED <<ruleStore, repoWrites, wgen, engineDone, serviceDone,
                   need, refreshes>>

GetActiveRules(p) ==
    \/ StartRead(p)
    \/ ReadLocked(p)
    \/ WriteLocked(p)
    \/ Fetch(p)
    \/ Store(p)

\* Mutant: the mutator returns without clearing the cached slice.
invalidateCache_keep(p) ==
    /\ UNCHANGED <<caseVars, pipeVars, auxVars>>
    /\ cpc[p] = "inval"
    /\ rulesMu = NONE
    /\ engineDone' = Max(engineDone, wgen[p])
    /\ cpc' = [cpc EXCEPT ![p] = "idle"]
    /\ UNCHANGED <<ruleStore, repoWrites, rulesCache, sinceRefresh, rulesMu, fetched, wgen,
                   serviceDone, need, got, refreshes>>

\* func (e *Engine) invalidateCache(): Lock; rulesCache = nil; Unlock.
invalidateCache(p) ==
    /\ UNCHANGED <<caseVars, pipeVars, auxVars>>
    /\ cpc[p] = "inval"
    /\ rulesMu = NONE
    /\ rulesCache' = NIL
    /\ refreshes' = 0
    /\ engineDone' = Max(engineDone, wgen[p])
    /\ cpc' = [cpc EXCEPT ![p] = "idle"]
    /\ UNCHANGED <<ruleStore, repoWrites, sinceRefresh, rulesMu, fetched, wgen,
                   serviceDone, need, got>>

\* The repository call of an Engine mutator: on error the mutator returns
\* without invalidating, on success it goes on to invalidateCache.
EngineWrite(p, store) ==
    /\ UNCHANGED <<caseVars, pipeVars, auxVars>>
    /\ cpc[p] = "idle"
    /\ repoWrites < MaxWrites
    /\ \E ok \in BOOLEAN :
         IF ok
         THEN /\ ruleStore' = store
              /\ repoWrites' = repoWrites + 1
              /\ wgen' = [wgen EXCEPT ![p] = repoWrites + 1]
              /\ cpc' = [cpc EXCEPT ![p] = "inval"]
         ELSE UNCHANGED <<ruleStore, repoWrites, wgen, cpc>>
    /\ UNCHANGED <<rulesCache, sinceRefresh, rulesMu, fetched, engineDone,
                   serviceDone, need, got, refreshes>>

\* Engine.AddRule: ruleRepo.Create, then invalidateCache.
AddRule(p, id) ==
    /\ ~ruleStore[id].present
    /\ EngineWrite(p, RepoCreate(ruleStore, id))

\* Engine.UpdateRule: ruleRepo.Update with the caller's rule, then invalidateCache.
UpdateRule(p, id, enabled, version) ==
    EngineWrite(p, RepoUpdate(ruleStore, id, enabled, version))

\* Engine.DisableRule: ruleRepo.Disable, then invalidateCache.
DisableRule(p, id) ==
    EngineWrite(p, RepoDisable(ruleStore, id))

\* ------------------------------------------------------------------------
\* fraud.Service rule administration (the HTTP surface: POST /api/v1/fraud/rules)
\* ------------------------------------------------------------------------
\* The Service methods call s.ruleRepo directly and return.
ServiceWrite(p, store) ==
    /\ UNCHANGED <<caseVars, pipeVars, auxVars>>
    /\ cpc[p] = "idle"
    /\ repoWrites < MaxWrites
    /\ ruleStore' = store
    /\ repoWrites' = repoWrites + 1
    /\ wgen' = [wgen EXCEPT ![p] = repoWrites + 1]
    /\ serviceDone' = repoWrites + 1
    /\ UNCHANGED <<rulesCache, sinceRefresh, rulesMu, cpc, fetched, engineDone,
                   need, got, refreshes>>

\* Service.CreateRule: validateRule; s.ruleRepo.Create.
CreateRule(p, id) ==
    /\ ~ruleStore[id].present
    /\ ServiceWrite(p, RepoCreate(ruleStore, id))

\* Service.UpdateRule: validateRule; rule.IncrementVersion(); s.ruleRepo.Update.
ServiceUpdateRule(p, id, enabled, version) ==
    ServiceWrite(p, RepoUpdate(ruleStore, id, enabled, version + 1))

\* Service.DisableRule: s.ruleRepo.Disable.
ServiceDisableRule(p, id) ==
    ServiceWrite(p, RepoDisable(ruleStore, id))

\* Service.EnableRule: GetByID; rule.Enable(); s.ruleRepo.Update.
EnableRule(p, id) ==
    /\ ruleStore[id].present
    /\ ServiceWrite(p, RepoUpdate(ruleStore, id, TRUE, ruleStore[id].version))

\* Time passes until cacheTTL has elapsed since the last refresh (a shorter
\* wait changes nothing GetActiveRules can observe).
Tick ==
    /\ UNCHANGED <<caseVars, pipeVars, auxVars>>
    /\ sinceRefresh < cacheTTL
    /\ sinceRefresh' = cacheTTL
    /\ refreshes' = 0
    /\ UNCHANGED <<ruleStore, repoWrites, rulesCache, rulesMu, cpc,
                   fetched, wgen, engineDone, serviceDone, need, got>>

NextCache ==
    \/ \E p \in Readers : GetActiveRules(p)
    \/ \E p \in EngineCallers, id \in RuleIds : AddRule(p, id)
    \/ \E p \in EngineCallers, id \in RuleIds, en \in BOOLEAN :
          \E v \in {1, ruleStore[id].version} : UpdateRule(p, id, en, v)
    \/ \E p \in EngineCallers, id \in RuleIds : DisableRule(p, id)
    \/ \E p \in EngineCallers : invalidateCache(p)
    \/ \E p \in ServiceCallers, id \in RuleIds : CreateRule(p, id)
    \/ \E p \in ServiceCallers, id \in RuleIds, en \in BOOLEAN :
          ServiceUpdateRule(p, id, en, ruleStore[id].version)
    \/ \E p \in ServiceCallers, id \in RuleIds : ServiceDisableRule(p, id)
    \/ \E p \in ServiceCallers, id \in RuleIds : EnableRule(p, id)
    \/ Tick

InitCache ==
    /\ ruleStore = [id \in RuleIds |->
                      IF id = "ra" THEN [present |-> TRUE, enabled |-> TRUE, version |-> 1]
                      ELSE AbsentRule]
    /\ repoWrites = 0
    /\ rulesCache = NIL
    /\ sinceRefresh = cacheTTL
    /\ rulesMu = NONE
    /\ cpc = [p \in CacheProcs |-> "idle"]
    /\ fetched = [p \in Readers |-> NIL]
    /\ wgen = [p \in EngineCallers \cup ServiceCallers |-> 0]
    /\ engineDone = 0
    /\ serviceDone = 0
    /\ need = [p \in Readers |-> [engine |-> 0, service |-> 0]]
    /\ got = [p \in Readers |-> -1]
    /\ refreshes = 0



\* ------------------------------------------------------------------------
\* Fraud cases: entity (FraudCase), repository (postgres.CaseRepository),
\* Service case operations and the case coordinator (Service.CreateFraudCase)
\* ------------------------------------------------------------------------
Users == {"u1", "u2"}
Investigators == {"i1"}
CaseRisks == {"high", "critical"}
\* The risk level of the decision that triggers the coordinator for transaction tx
\* (an input: odd transactions carry a high decision, even ones a critical one).
DecisionRisk(tx) == IF tx % 2 = 1 THEN "high" ELSE "critical"
CaseProcs == {"k1", "k2"}        \* goroutines running coordinator triggers
InvestigatorProcs == {"k1"}      \* ... of which these also serve investigator requests
CaseStatus == {"open", "investigating", "resolved", "closed", "escalated"}

NoCase == [user |-> NONE, status |-> NONE, txs |-> <<>>, assignedTo |-> NONE,
           risk |-> NONE]

\* NewFraudCase(transactionID, userID, accountID, riskLevel)
NewFraudCase(tx, user, risk) ==
    [user |-> user, status |-> "open", txs |-> <<tx>>, assignedTo |-> NONE,
     risk |-> risk]

\* FraudCase.IsOpen / the status filter of CaseRepository.GetOpenCasesByUser
IsOpen(c) == c.status \in {"open", "investigating"}

\* CaseRepository.GetOpenCasesByUser: the ids of the user's open rows.
GetOpenCasesByUser(tbl, user) ==
    {i \in 1..Len(tbl) : tbl[i].user = user /\ IsOpen(tbl[i])}

\* The entity methods: [ok, c] is the error flag and the case afterwards.
\* FraudCase.Assign
Assign(c, investigator) ==
    IF c.status = "closed" \/ c.status = "resolved"
    THEN [ok |-> FALSE, c |-> c]
    ELSE [ok |-> TRUE, c |-> [c EXCEPT !.assignedTo = investigator,
                                       !.status = "investigating"]]

\* FraudCase.Resolve
Resolve(c) ==
    IF c.status = "closed"
    THEN [ok |-> FALSE, c |-> c]
    ELSE [ok |-> TRUE, c |-> [c EXCEPT !.status = "resolved"]]

Close_any(c) == [ok |-> TRUE, c |-> [c EXCEPT !.status = "closed"]]

\* FraudCase.Close
Close(c) ==
    IF c.status # "resolved"
    THEN [ok |-> FALSE, c |-> c]
    ELSE [ok |-> TRUE, c |-> [c EXCEPT !.status = "closed"]]

\* FraudCase.Escalate
Escalate(c) == [ok |-> TRUE, c |-> [c EXCEPT !.status = "escalated"]]

\* FraudCase.AddTransaction
AddTransaction(c, tx) == [c EXCEPT !.txs = Append(c.txs, tx)]

\* The entity method a Service case operation applies to the loaded case.
Apply(op, c, investigator) ==
    CASE op = "assign" -> Assign(c, investigator)
      [] op = "resolve" -> Resolve(c)
      [] op = "close" -> Close(c)
      [] op = "escalate" -> Escalate(c)

\* CaseRepository.Update: UPDATE fraud_cases SET <every mutable column> WHERE id = ?
CaseUpdate(tbl, id, c) == [tbl EXCEPT ![id] = c]

\* CaseRepository.Create: INSERT
CaseCreate(tbl, c) == Append(tbl, c)

Idle == [pc |-> "idle", op |-> NONE, id |-> 0, tx |-> 0, user |-> NONE, risk |-> NONE,
         inv |-> NONE, loaded |-> NoCase, hadOpen |-> FALSE]

\* Service.AssignCase/ResolveCase/CloseCase/EscalateCase, first half:
\* fraudCase, err := s.caseRepo.GetByID(ctx, caseID)
CaseOpLoad(p, op, id) ==
    /\ UNCHANGED <<cacheVars, pipeVars, auxVars>>
    /\ kst[p].pc = "idle"
    /\ id \in 1..Len(cases)
    /\ nextOp <= MaxOps
    /\ nextOp' = nextOp + 1
    /\ \E inv \in IF op = "assign" THEN Investigators ELSE {NONE}, ok \in BOOLEAN :
         IF ok
         THEN /\ kst' = [kst EXCEPT ![p] = [Idle EXCEPT !.pc = "loaded", !.op = op, !.id = id,
                                                        !.inv = inv, !.loaded = cases[id]]]
              /\ UNCHANGED lastCall
         ELSE /\ lastCall' = [op |-> op, res |-> "err"]
              /\ UNCHANGED kst
    /\ UNCHANGED <<cases, nextTx>>

\* ... second half: the entity method, return its error, else s.caseRepo.Update.
CaseOpFinish(p) ==
    /\ UNCHANGED <<cacheVars, pipeVars, auxVars>>
    /\ kst[p].pc = "loaded"
    /\ kst[p].op \in {"assign", "resolve", "close", "escalate"}
    /\ LET r == Apply(kst[p].op, kst[p].loaded, kst[p].inv) IN
       \E ok \in BOOLEAN :
         IF ~r.ok
         THEN /\ cases' = cases
              /\ lastCall' = [op |-> kst[p].op, res |-> "rejected"]
         ELSE IF ok
         THEN /\ cases' = CaseUpdate(cases, kst[p].id, r.c)
              /\ lastCall' = [op |-> kst[p].op, res |-> "ok"]
         ELSE /\ cases' = cases
              /\ lastCall' = [op |-> kst[p].op, res |-> "err"]
    /\ kst' = [kst EXCEPT ![p] = Idle]
    /\ UNCHANGED <<nextOp, nextTx>>

\* Service.CreateFraudCase, first half: openCases, err := GetOpenCasesByUser(ctx, userID).
\* The query has no ORDER BY: any open row of the user may come first.
CoordinatorLoad(p, user) ==
    /\ UNCHANGED <<cacheVars, pipeVars, auxVars>>
    /\ kst[p].pc = "idle"
    /\ nextTx <= MaxTx
    /\ nextTx' = nextTx + 1
    /\ LET open == GetOpenCasesByUser(cases, user) IN
       \E ok \in BOOLEAN :
         IF ~ok
         THEN /\ lastCall' = [op |-> "trigger", res |-> "err"]
              /\ UNCHANGED kst
         ELSE \E first \in IF open = {} THEN {0} ELSE open :
                /\ UNCHANGED lastCall
                /\ kst' = [kst EXCEPT ![p] =
                          [Idle EXCEPT !.pc = "loaded", !.op = "trigger", !.tx = nextTx,
                                       !.user = user, !.risk = DecisionRisk(nextTx),
                                       !.id = first,
                                       !.loaded = IF first = 0 THEN NoCase ELSE cases[first],
                                       !.hadOpen = \E i \in 1..Len(cases) :
                                            /\ cases[i].user = user
                                            /\ cases[i].status \in {"open", "investigating"}]]
    /\ UNCHANGED <<cases, nextOp>>

CoordinatorWrite_alwaysCreate(tbl, first, loaded, tx, user, risk) ==
    CaseCreate(tbl, NewFraudCase(tx, user, risk))

\* What the coordinator writes: the table afterwards, given openCases[0] (id 0: none).
CoordinatorWrite(tbl, first, loaded, tx, user, risk) ==
    IF first # 0
    THEN CaseUpdate(tbl, first, AddTransaction(loaded, tx))
    ELSE CaseCreate(tbl, NewFraudCase(tx, user, risk))

\* Service.CreateFraudCase, second half: append to openCases[0] and Update, or Create.
CoordinatorFinish(p) ==
    /\ UNCHANGED <<cacheVars, pipeVars, auxVars>>
    /\ kst[p].pc = "loaded"
    /\ kst[p].op = "trigger"
    /\ \E ok \in BOOLEAN :
         IF ok
         THEN /\ cases' = CoordinatorWrite(cases, kst[p].id, kst[p].loaded, kst[p].tx,
                                           kst[p].user, kst[p].risk)
              /\ lastCall' = [op |-> "trigger", res |-> "ok"]
         ELSE /\ cases' = cases
              /\ lastCall' = [op |-> "trigger", res |-> "err"]
    /\ kst' = [kst EXCEPT ![p] = Idle]
    /\ UNCHANGED <<nextOp, nextTx>>

NextCase ==
    \/ \E p \in InvestigatorProcs, id \in 1..MaxTx,
          op \in {"assign", "resolve", "close", "escalate"} : CaseOpLoad(p, op, id)
    \/ \E p \in CaseProcs : CaseOpFinish(p)
    \/ \E p \in CaseProcs, user \in Users : CoordinatorLoad(p, user)
    \/ \E p \in CaseProcs : CoordinatorFinish(p)

InitCaseProcs ==
    /\ kst = [p \in CaseProcs |-> Idle]
    /\ lastCall = [op |-> NONE, res |-> NONE]
    /\ nextOp = 1
    /\ nextTx = 1

InitCase ==
    /\ cases = <<>>
    /\ InitCaseProcs

\* ------------------------------------------------------------------------
\* The request pipeline: DetectFraudUseCase.Execute, Service.AnalyzeTransaction,
\* Engine.Evaluate and the six rule evaluators, the score aggregator.
\* Scores are in units of 1e-4, weights in units of 1e-2, weighted sums and
\* thresholds in units of 1e-6.
\* ------------------------------------------------------------------------
PipeUsers == {"u1"}
NoDevice == 0                    \* input.Device == nil

\* A rule as the evaluators see it: type, action and the parsed config.
RuleDefaults ==
    [name |-> NONE, type |-> NONE, action |-> "allow", enabled |-> TRUE,
     maxTransactions |-> DefaultMaxTransactions, amountThreshold |-> 0, countOnly |-> FALSE,
     maxAmount |-> 0, deviationFactor |-> 0,
     blockedCountries |-> {}, allowedCountries |-> {}, requireConsistent |-> FALSE,
     maxDistanceKm |-> 0,
     requireTrustedDevice |-> FALSE, maxDevicesPerUser |-> 0, blockNewDevices |-> FALSE]

\* MockRuleRepository.seedDefaultRules
SeededRules ==
    << [RuleDefaults EXCEPT !.name = "high_velocity", !.type = "velocity", !.action = "block",
                            !.maxTransactions = SeededMaxTransactions],
       [RuleDefaults EXCEPT !.name = "high_amount", !.type = "amount", !.action = "review",
                            !.maxAmount = SeededMaxAmount, !.deviationFactor = SeededDeviationFactor],
       [RuleDefaults EXCEPT !.name = "blocked_countries", !.type = "geographic",
                            !.action = "block", !.blockedCountries = {"KP", "IR", "SY"},
                            !.requireConsistent = TRUE],
       [RuleDefaults EXCEPT !.name = "new_device", !.type = "device", !.action = "challenge",
                            !.requireTrustedDevice = TRUE,
                            !.maxDevicesPerUser = SeededMaxDevices],
       [RuleDefaults EXCEPT !.name = "unusual_time", !.type = "behavioral",
                            !.action = "review"] >>

\* A rules table to which further geographic block rules were added through
\* the rule API (RuleRepository.Create): the seeded rules and ExtraGeoRules more,
\* each with a blocked country and max_distance_km = 500.
GeoRule(n) ==
    [RuleDefaults EXCEPT !.name = "blocked_countries", !.type = "geographic",
                         !.action = "block", !.blockedCountries = {"KP"},
                         !.maxDistanceKm = 500]

ManyGeoRules == SeededRules \o [n \in 1..ExtraGeoRules |-> GeoRule(n)]

\* RuleRepository.ListActive for the table named.
RulesTable(name) == IF name = "manyGeo" THEN ManyGeoRules ELSE SeededRules

\* fraud.NewRuleResult
NewRuleResult(rule, fired, score, action) ==
    [name |-> rule.name, type |-> rule.type, fired |-> fired, score |-> score,
     action |-> action, storeErr |-> FALSE, metadata |-> {}]

\* RuleResult.AddMetadata: the metadata map as a set of <<key, value>> pairs
AddMetadata(result, key, value) ==
    [result EXCEPT !.metadata = {kv \in @ : kv[1] # key} \cup {<<key, value>>}]

\* History kept with a result: a window-store call made while this rule was
\* evaluated returned an error.
WithStoreErr(result, failed) == [result EXCEPT !.storeErr = failed]

NotFired_keepAction(rule) == NewRuleResult(rule, FALSE, 0, rule.action)

\* The result every evaluator returns on a branch that does not fire:
\* NewRuleResult(rule.ID, rule.Name, false, decimal.Zero, reason, ActionAllow)
NotFired(rule) == NewRuleResult(rule, FALSE, 0, "allow")

\* calculateVelocityScore: ratio = count/limit in floating point, 0.9 when
\* ratio >= 2, else 0.5 + (ratio - 1) * 0.4. limit is the rule's max_transactions,
\* which no validation keeps positive; ratio >= 2 reads count >= 2*limit for a
\* positive and count <= 2*limit for a negative limit. (limit = 0 divides by
\* zero: +Inf for count > 0; count = 0 is not explored.)
calculateVelocityScore(count, limit) ==
    IF limit > 0 /\ count >= 2 * limit THEN 9000
    ELSE IF limit < 0 /\ count <= 2 * limit THEN 9000
    ELSE IF limit = 0 THEN 9000
    ELSE 5000 + ((count - limit) * 4000) \div limit

\* calculateAmountScore
calculateAmountScore(amount, limit) ==
    IF amount >= 5 * limit THEN 9500
    ELSE IF amount >= 2 * limit THEN 8000
    ELSE 6000 + ((amount - limit) * 2000) \div limit

\* Engine.evaluateVelocityRule, given what the store calls return (io).
\* The caller has established that e.velocityCache is not nil.
evaluateVelocityRule(rule, ctx, io) ==
    LET sumCalled == /\ ~io.countErr /\ io.count < rule.maxTransactions
                     /\ rule.amountThreshold # 0 /\ ~rule.countOnly
    IN WithStoreErr(
         IF io.countErr THEN NotFired(rule)
         ELSE IF io.count >= rule.maxTransactions
         THEN AddMetadata(
                AddMetadata(
                  NewRuleResult(rule, TRUE,
                                calculateVelocityScore(io.count, rule.maxTransactions),
                                rule.action),
                  "transaction_count", io.count),
                "limit", rule.maxTransactions)
         ELSE IF sumCalled /\ ~io.sumErr /\ io.sum + ctx.amount > rule.amountThreshold
         THEN NewRuleResult(rule, TRUE, 7000, rule.action)
         ELSE NotFired(rule),
         io.countErr \/ (sumCalled /\ io.sumErr))

\* Engine.evaluateAmountRule
evaluateAmountRule(rule, ctx) ==
    IF rule.maxAmount # 0 /\ ctx.amount > rule.maxAmount
    THEN NewRuleResult(rule, TRUE, calculateAmountScore(ctx.amount, rule.maxAmount),
                       rule.action)
    ELSE IF /\ rule.deviationFactor > 0 /\ ctx.averageTransaction # 0
            /\ ctx.amount > ctx.averageTransaction * rule.deviationFactor
    THEN NewRuleResult(rule, TRUE, 6500, rule.action)
    ELSE NotFired(rule)

\* Engine.evaluateGeographicRule. ctx.lastLocation is the location of
\* RecentTransactions[0] (NONE when absent), ctx.impossible whether distance and
\* speed from it exceed max_distance_km and 900 km/h.
evaluateGeographicRule(rule, ctx, io) ==
    LET knownCalled == /\ ctx.country # NONE
                       /\ ctx.country \notin rule.blockedCountries
                       /\ ~(rule.allowedCountries # {}
                             /\ ctx.country \notin rule.allowedCountries)
                       /\ rule.requireConsistent /\ io.locationCache
    IN WithStoreErr(
         IF ctx.country = NONE THEN NotFired(rule)
         ELSE IF ctx.country \in rule.blockedCountries
         THEN NewRuleResult(rule, TRUE, 9000, "block")
         ELSE IF rule.allowedCountries # {} /\ ctx.country \notin rule.allowedCountries
         THEN NewRuleResult(rule, TRUE, 7500, rule.action)
         ELSE IF knownCalled /\ ~io.knownLocationErr /\ ~io.knownLocation
         THEN NewRuleResult(rule, TRUE, 5000, "challenge")
         ELSE IF /\ rule.maxDistanceKm > 0 /\ ctx.recent > 0
                 /\ ctx.lastLocation # NONE /\ ctx.impossible
         THEN NewRuleResult(rule, TRUE, 8500, "block")
         ELSE NotFired(rule),
         knownCalled /\ io.knownLocationErr)

\* Engine.evaluateDeviceRule
evaluateDeviceRule(rule, ctx, io) ==
    LET firstKnownCalled == /\ ctx.device # NoDevice /\ rule.requireTrustedDevice
                            /\ ~ctx.trusted /\ io.deviceCache
        newDevice == firstKnownCalled /\ ~io.knownDeviceErr /\ ~io.knownDevice
        countCalled == /\ ctx.device # NoDevice /\ ~newDevice
                       /\ rule.maxDevicesPerUser > 0 /\ io.deviceCache
        overLimit == /\ countCalled /\ ~io.deviceCountErr
                     /\ io.deviceCount >= rule.maxDevicesPerUser
        \* isKnown, _ := e.deviceCache.IsKnownDevice(...): on error isKnown is false
        isKnown == ~io.knownDeviceErr /\ io.knownDevice
    IN WithStoreErr(
         IF ctx.device = NoDevice THEN NotFired(rule)
         ELSE IF newDevice
         THEN IF rule.blockNewDevices
              THEN NewRuleResult(rule, TRUE, 8000, "block")
              ELSE NewRuleResult(rule, TRUE, 5500, "challenge")
         ELSE IF overLimit /\ ~isKnown
         THEN NewRuleResult(rule, TRUE, 6000, rule.action)
         ELSE NotFired(rule),
         \/ firstKnownCalled /\ io.knownDeviceErr
         \/ countCalled /\ io.deviceCountErr
         \/ overLimit /\ io.knownDeviceErr)

\* Engine.evaluateMerchantRule
evaluateMerchantRule(rule, ctx) ==
    IF ctx.merchant = NONE THEN NotFired(rule)
    ELSE IF ctx.merchant = "highRisk" THEN NewRuleResult(rule, TRUE, 4500, "review")
    ELSE IF ctx.merchant = "highRiskMCC" THEN NewRuleResult(rule, TRUE, 4000, "review")
    ELSE NotFired(rule)

\* Engine.evaluateBehavioralRule; enrichContext always supplies a profile with
\* an account age of 30 days and last activity one day ago.
evaluateBehavioralRule(rule, ctx) ==
    IF ctx.hour >= 2 /\ ctx.hour <= 5 THEN NewRuleResult(rule, TRUE, 3500, "challenge")
    ELSE NotFired(rule)

\* Engine.EvaluateRule. rule.IsActive() is rule.enabled for the rules here,
\* which are effective since their creation and do not expire.
EvaluateRule(rule, ctx, io) ==
    CASE ~rule.enabled -> NotFired(rule)
      [] rule.type = "velocity" -> evaluateVelocityRule(rule, ctx, io)
      [] rule.type = "amount" -> evaluateAmountRule(rule, ctx)
      [] rule.type = "geographic" -> evaluateGeographicRule(rule, ctx, io)
      [] rule.type = "device" -> evaluateDeviceRule(rule, ctx, io)
      [] rule.type = "merchant" -> evaluateMerchantRule(rule, ctx)
      [] rule.type = "behavioral" -> evaluateBehavioralRule(rule, ctx)
      [] OTHER -> NotFired(rule)

\* Engine.Evaluate: one result per rule, in list order.
Evaluate(rules, ctx, io) == [i \in 1..Len(rules) |-> EvaluateRule(rules[i], ctx, io)]

\* Engine.evaluateVelocityRule calls e.velocityCache.GetTransactionCount without
\* a nil check: with a nil cache the method dereferences c.client and panics.
EvaluatePanics(rules, io) ==
    ~io.velocityCache /\ \E i \in 1..Len(rules) : rules[i].type = "velocity"

\* fraud.DefaultScoreWeights, the same values as the Fraud section of
\* config.DefaultConfig that main passes to SetScoreWeights (1e-2 units)
DefaultScoreWeights ==
    [velocity |-> 25, amount |-> 15, geographic |-> 20, device |-> 15,
     merchant |-> 10, behavioral |-> 10, ml |-> 5]

getWeightForRule_velocity(ruleName, weights) == weights.velocity

\* getWeightForRule: the same weight for every rule, whatever the weights are.
getWeightForRule(ruleName, weights) == RuleWeight

RECURSIVE WeightedSum(_, _)
WeightedSum(results, weights) ==
    IF results = <<>> THEN 0
    ELSE (IF Head(results).fired
          THEN Head(results).score * getWeightForRule(Head(results).name, weights) ELSE 0)
         + WeightedSum(Tail(results), weights)

\* aggregateWeightedAverage: the final score, capped at 1.
aggregateWeightedAverage(results, weights) == Min(WeightedSum(results, weights), 1000000)

\* aggregateWeightedAverage: RuleContributions, the map rule name -> score * weight
\* as a set of <<name, contribution>> pairs (a later result of the same name
\* replaces the earlier entry)
RECURSIVE RuleContributions(_, _)
RuleContributions(results, weights) ==
    IF results = <<>> THEN {}
    ELSE LET r == results[Len(results)]
             before == RuleContributions(SubSeq(results, 1, Len(results) - 1), weights)
         IN IF r.fired
            THEN {kv \in before : kv[1] # r.name}
                   \cup {<<r.name, r.score * getWeightForRule(r.name, weights)>>}
            ELSE before

RECURSIVE MaxFired(_)
MaxFired(results) ==
    IF results = <<>> THEN 0
    ELSE Max(IF Head(results).fired THEN Head(results).score ELSE 0,
             MaxFired(Tail(results)))

\* aggregateMaxScore
aggregateMaxScore(results) == MaxFired(results) * 100

\* aggregateBayesian: the posterior odds are prior/(1-prior) times the product
\* of score/(1-score) over the fired results, with prior 0.01: a fraction
\* OddsNum/OddsDen, the scores taken in units of 1e-2 (exact for the scores that
\* are multiples of 1e-2).
RECURSIVE OddsNum(_)
OddsNum(results) ==
    IF results = <<>> THEN 1
    ELSE (IF Head(results).fired THEN Head(results).score \div 100 ELSE 1)
         * OddsNum(Tail(results))

RECURSIVE OddsDen(_)
OddsDen(results) ==
    IF results = <<>> THEN 99
    ELSE (IF Head(results).fired THEN 100 - Head(results).score \div 100 ELSE 1)
         * OddsDen(Tail(results))

\* The first digits decimal places of r/m for 0 <= r < m, as an integer
RECURSIVE Frac(_, _, _)
Frac(r, m, digits) ==
    IF digits = 0 THEN 0
    ELSE LET d == (r * 10) \div m
             pow == [k \in 0..5 |-> CASE k = 0 -> 1 [] k = 1 -> 10 [] k = 2 -> 100
                                      [] k = 3 -> 1000 [] k = 4 -> 10000 [] OTHER -> 100000]
         IN d * pow[digits - 1] + Frac((r * 10) % m, m, digits - 1)

\* n/m in units of 1e-6, truncated towards zero, for m > 0
Quotient6(n, m) ==
    LET a == IF n < 0 THEN 0 - n ELSE n
        q == (a \div m) * 1000000 + Frac(a % m, m, 6)
    IN IF n < 0 THEN 0 - q ELSE q

\* aggregateBayesian: finalProb = odds / (1 + odds)
aggregateBayesian(results, weights) ==
    Quotient6(OddsNum(results), OddsNum(results) + OddsDen(results))

\* Service.scoringStrategy as NewService sets it; main never changes it.
scoringStrategy == "weighted_average"

\* Service.scoreWeights as main sets it from the configuration defaults
scoreWeights == DefaultScoreWeights

\* AggregateRuleResults (FinalScore)
AggregateRuleResults(results, weights, strategy) ==
    CASE strategy = "max_score" -> aggregateMaxScore(results)
      [] strategy = "bayesian" -> aggregateBayesian(results, weights)
      [] OTHER -> aggregateWeightedAverage(results, weights)

\* Service.calculateConfidence: fired results over all results, capped at 0.95
\* (1e-4 units)
calculateConfidence(results) ==
    IF Len(results) = 0 THEN 0
    ELSE Min((Cardinality({i \in 1..Len(results) : results[i].fired}) * 10000)
                \div Len(results), 9500)

\* getRiskLevel
getRiskLevel(score) ==
    IF score >= 800000 THEN "critical"
    ELSE IF score >= 600000 THEN "high"
    ELSE IF score >= 300000 THEN "medium"
    ELSE "low"

determineDecisionWith_reviewFirst(th, score) ==
    IF score >= th.review * 10000 THEN "review"
    ELSE IF score >= th.block * 10000 THEN "block"
    ELSE IF score >= th.challenge * 10000 THEN "challenge"
    ELSE "allow"

\* Service.determineDecision for the thresholds th the service holds (1e-2 units)
determineDecisionWith(th, score) ==
    IF score >= th.block * 10000 THEN "block"
    ELSE IF score >= th.review * 10000 THEN "review"
    ELSE IF score >= th.challenge * 10000 THEN "challenge"
    ELSE "allow"

\* config.DefaultConfig: the thresholds of the Fraud section
DefaultThresholds ==
    [block |-> BlockThreshold, review |-> ReviewThreshold, challenge |-> ChallengeThreshold]

\* Service.determineDecision with the thresholds of config defaults
determineDecision(score) == determineDecisionWith(DefaultThresholds, score)

\* What can go wrong while one request is handled: one store or repository call
\* fails, or the request deadline expires before the named stage.
Faults == {"none", "recent", "listActive", "count", "knownLocation", "knownDevice",
           "deviceCount", "persist", "caseRepo",
           "deadlineEnrich", "deadlineEvaluate", "deadlinePersist"}

ExpiredAtEnrich(fault) == fault = "deadlineEnrich"
ExpiredAtEvaluate(fault) == fault \in {"deadlineEnrich", "deadlineEvaluate"}
ExpiredAtPersist(fault) == fault \in {"deadlineEnrich", "deadlineEvaluate", "deadlinePersist"}

\* VelocityCache.GetTransactionSum over the members "txID|amount" of the set
RECURSIVE SumAmounts(_)
SumAmounts(entries) ==
    IF entries = {} THEN 0
    ELSE LET e == CHOOSE x \in entries : TRUE IN e.amount + SumAmounts(entries \ {e})

\* What the window-store calls of one request return. A nil cache is never
\* called by the geographic and device evaluators; the Redis client returns
\* the context's error once the deadline has expired.
StoreView(user, device, country, fault) ==
    [velocityCache |-> redisUp, deviceCache |-> redisUp, locationCache |-> redisUp,
     countErr |-> fault = "count" \/ ExpiredAtEvaluate(fault),
     count |-> Cardinality(window[user]),
     sumErr |-> ExpiredAtEvaluate(fault),
     sum |-> SumAmounts(window[user]),
     knownLocationErr |-> fault = "knownLocation" \/ ExpiredAtEvaluate(fault),
     knownLocation |-> country \in locations[user],
     knownDeviceErr |-> fault = "knownDevice" \/ ExpiredAtEvaluate(fault),
     knownDevice |-> device \in devices[user],
     deviceCountErr |-> fault = "deviceCount" \/ ExpiredAtEvaluate(fault),
     deviceCount |-> Cardinality(devices[user])]

\* VelocityCache.GetRecentTransactions: one TransactionRecord{TransactionID,
\* Amount} per member "txID|amount" of the sorted set; the record's Timestamp
\* is not set and stays the zero time (0).
GetRecentTransactions(entries) ==
    {[tx |-> e.tx, amount |-> e.amount, timestamp |-> 0] : e \in entries}

TransactionSummary_located(r) ==
    [id |-> r.tx, amount |-> r.amount, timestamp |-> 1, location |-> "FR"]

\* The fraud.TransactionSummary enrichContext builds from a record: ID, Amount
\* and Timestamp are copied, Location stays nil.
TransactionSummary(r) ==
    [id |-> r.tx, amount |-> r.amount, timestamp |-> r.timestamp, location |-> NONE]

\* DetectFraudUseCase.enrichContext: RecentTransactions from the window store,
\* errors swallowed. lastLocation and impossible are what evaluateGeographicRule
\* reads of RecentTransactions[0]: its location, and whether the request comes
\* from another place (farther than max_distance_km) at more than 900 km/h,
\* which a zero timestamp rules out (the time difference is centuries).
enrichContext(tx, user, amount, country, device, trusted, hour, fault) ==
    LET recents == IF redisUp /\ fault # "recent" /\ ~ExpiredAtEnrich(fault)
                   THEN {TransactionSummary(r) : r \in GetRecentTransactions(window[user])}
                   ELSE {}
        first == IF recents = {} THEN [location |-> NONE, timestamp |-> 0]
                 ELSE CHOOSE summary \in recents : TRUE
    IN [tx |-> tx, user |-> user, amount |-> amount, country |-> country,
        device |-> device, trusted |-> trusted, merchant |-> NONE, hour |-> hour,
        averageTransaction |-> 0,
        recent |-> Cardinality(recents),
        lastLocation |-> first.location,
        impossible |-> /\ first.location # NONE /\ country # NONE
                       /\ first.location # country /\ first.timestamp # 0]

\* Engine.GetActiveRules misses its cache and RuleRepository.ListActive fails
\* (postgres only: the mock never fails and ignores the context).
ListActiveFails(fault) == dbUp /\ (fault = "listActive" \/ ExpiredAtEnrich(fault))

\* DecisionRepository.Create fails (postgres: db.WithContext(ctx).Create;
\* MockDecisionRepository.Create stores and returns nil whatever the context).
PersistFails(fault) == dbUp /\ (fault = "persist" \/ ExpiredAtPersist(fault))

\* History of the last request: its fault, what Execute returned (outcome ok:
\* a Decision, error, or panic), how far DecisionRepository.Create got, and what
\* the evaluation computed.
NoResponse == [tx |-> 0, user |-> NONE, fault |-> "none", outcome |-> NONE,
               persist |-> "notReached", decision |-> NONE, score |-> 0,
               risk |-> NONE, results |-> <<>>]

Launch_always(analysisFailed, task) == {task}

\* Execute returns the error of AnalyzeTransaction before the go statement:
\* the state-recording goroutine is launched only for a successful analysis.
Launch(analysisFailed, task) == IF analysisFailed THEN {} ELSE {task}

\* DetectFraudUseCase.Execute with Service.AnalyzeTransaction inside it, for
\* one request and one fault: enrich, evaluate, aggregate, decide, persist,
\* create or extend a fraud case, launch the state-recording goroutine, respond.
\* limit bounds the number of requests explored.
Execute(limit, user, amount, country, device, trusted, hour, fault) ==
    /\ UNCHANGED <<cacheVars, kst, lastCall, nextOp, nextTx, auxVars>>
    /\ reqs < limit
    /\ reqs' = reqs + 1
    /\ LET tx == reqs + 1
           ctx == enrichContext(tx, user, amount, country, device, trusted, hour, fault)
           io == StoreView(user, device, country, fault)
           rules == RulesTable(activeRules)
           results == Evaluate(rules, ctx, io)
           score == AggregateRuleResults(results, scoreWeights, scoringStrategy)
           decision == determineDecision(score)
           risk == getRiskLevel(score)
           open == GetOpenCasesByUser(cases, user)
           resp == [NoResponse EXCEPT !.tx = tx, !.user = user, !.fault = fault]
           task == [tx |-> tx, user |-> user, amount |-> amount,
                    device |-> device, country |-> country]
       IN
       IF ListActiveFails(fault)
       THEN \* Engine.Evaluate returns the error: ErrEvaluationFailed
            /\ last' = [resp EXCEPT !.outcome = "error"]
            /\ UNCHANGED <<decisions, cases, pending>>
       ELSE IF EvaluatePanics(rules, io)
       THEN \* nil pointer dereference in the handler goroutine: no response
            /\ last' = [resp EXCEPT !.outcome = "panic"]
            /\ UNCHANGED <<decisions, cases, pending>>
       ELSE IF PersistFails(fault)
       THEN /\ last' = [resp EXCEPT !.outcome = "error", !.persist = "failed",
                                    !.decision = decision, !.score = score,
                                    !.risk = risk, !.results = results]
            /\ pending' = pending \cup Launch(TRUE, task)
            /\ UNCHANGED <<decisions, cases>>
       ELSE /\ decisions' = Append(decisions, [tx |-> tx, user |-> user,
                                               decision |-> decision])
            /\ IF /\ decision \in {"review", "block"}
                  /\ risk \in {"high", "critical"}
                  /\ fault # "caseRepo"
               THEN \E first \in IF open = {} THEN {0} ELSE open :
                      cases' = CoordinatorWrite(cases, first,
                                                IF first = 0 THEN NoCase ELSE cases[first],
                                                tx, user, risk)
               ELSE cases' = cases
            /\ pending' = pending \cup Launch(FALSE, task)
            /\ last' = [resp EXCEPT !.outcome = "ok", !.persist = "ok",
                                    !.decision = decision,
                                    !.score = score, !.risk = risk, !.results = results]
    /\ UNCHANGED <<dbUp, redisUp, activeRules, window, devices, locations>>

\* The goroutine Execute launches: RecordTransaction, RecordDeviceUsage and
\* RecordLocation under context.Background(), each skipped when its cache is
\* nil or the input lacks the datum, each error ignored.
RunRecorder ==
    /\ UNCHANGED <<cacheVars, caseVars, auxVars>>
    /\ \E t \in pending, okV \in BOOLEAN, okD \in BOOLEAN, okL \in BOOLEAN :
         /\ pending' = pending \ {t}
         /\ window' = IF redisUp /\ okV
                      THEN [window EXCEPT ![t.user] = @ \cup {[tx |-> t.tx, amount |-> t.amount]}]
                      ELSE window
         /\ devices' = IF redisUp /\ t.device # NoDevice /\ okD
                       THEN [devices EXCEPT ![t.user] = @ \cup {t.device}]
                       ELSE devices
         /\ locations' = IF redisUp /\ t.country # NONE /\ okL
                         THEN [locations EXCEPT ![t.user] = @ \cup {t.country}]
                         ELSE locations
    /\ UNCHANGED <<dbUp, redisUp, activeRules, decisions, reqs, last>>

\* The requests explored: amounts below and above the seeded max_amount, no
\* location / an ordinary country / a blocked country, no device / an
\* untrusted device / a trusted device, a daytime and a night hour.
Requests ==
    { [amount |-> 100, country |-> NONE, device |-> NoDevice, trusted |-> FALSE, hour |-> 12],
      [amount |-> 6000, country |-> "US", device |-> 1, trusted |-> FALSE, hour |-> 12],
      [amount |-> 100, country |-> "KP", device |-> 1, trusted |-> FALSE, hour |-> 12],
      [amount |-> 100, country |-> "US", device |-> 2, trusted |-> TRUE, hour |-> 3],
      [amount |-> 6000, country |-> "KP", device |-> 2, trusted |-> TRUE, hour |-> 3] }

NextPipe ==
    \/ \E user \in PipeUsers, r \in Requests, fault \in Faults :
          Execute(MaxReq, user, r.amount, r.country, r.device, r.trusted, r.hour, fault)
    \/ RunRecorder

\* Requests of one user answered one after the other with nothing failing,
\* their state-recording goroutines running whenever the scheduler lets them
StreamRequests ==
    { [amount |-> 100, country |-> NONE, device |-> NoDevice, trusted |-> FALSE, hour |-> 12],
      [amount |-> 200, country |-> "US", device |-> 1, trusted |-> TRUE, hour |-> 12] }

NextStream ==
    \/ \E user \in PipeUsers, r \in StreamRequests :
          Execute(MaxStream, user, r.amount, r.country, r.device, r.trusted, r.hour, "none")
    \/ RunRecorder

\* ------------------------------------------------------------------------
\* FraudHandler.AnalyzeTransaction: decode, ToInput, Execute (SpecHandler)
\* ------------------------------------------------------------------------
\* Texts a client sends in transaction_id, user_id and account_id
RawIds == {"6ba7b810-9dad-11d1-80b4-00c04fd430c8", "not-a-uuid"}

\* Texts a client sends in amount
RawAmounts == {"100", "6000", "ten"}

\* Texts a client sends in currency, as sequences of characters
RawCurrencies == {<<"U", "S", "D">>, <<"U", "S">>, <<"E", "U", "R", "O">>}

ParseError == [ok |-> FALSE, value |-> 0]

\* uuid.Parse: an error unless the text is a UUID
ParseUUID(text) ==
    IF text = "6ba7b810-9dad-11d1-80b4-00c04fd430c8"
    THEN [ok |-> TRUE, value |-> 1] ELSE ParseError

\* decimal.NewFromString: an error unless the text is a decimal number
NewFromString(text) ==
    CASE text = "100" -> [ok |-> TRUE, value |-> 100]
      [] text = "6000" -> [ok |-> TRUE, value |-> 6000]
      [] OTHER -> ParseError

\* AnalyzeTransactionRequest.ToInput: the three ids and the amount are parsed,
\* the first failure is returned; Currency is copied as it is
ToInput(req) ==
    IF ~ParseUUID(req.transactionId).ok THEN [ok |-> FALSE, amount |-> 0, currency |-> <<>>]
    ELSE IF ~ParseUUID(req.userId).ok THEN [ok |-> FALSE, amount |-> 0, currency |-> <<>>]
    ELSE IF ~ParseUUID(req.accountId).ok THEN [ok |-> FALSE, amount |-> 0, currency |-> <<>>]
    ELSE IF ~NewFromString(req.amount).ok THEN [ok |-> FALSE, amount |-> 0, currency |-> <<>>]
    ELSE [ok |-> TRUE, amount |-> NewFromString(req.amount).value, currency |-> req.currency]

NoRequest ==
    [n |-> 0, transactionId |-> "", userId |-> "", accountId |-> "", amount |-> "",
     currency |-> <<>>]

\* FraudHandler.AnalyzeTransaction, first half: the JSON body is decoded
Decode ==
    /\ httpReq.n = reqs
    /\ reqs < MaxReq
    /\ \E t \in RawIds, u \in RawIds, a \in RawIds, amt \in RawAmounts, c \in RawCurrencies :
         httpReq' = [n |-> reqs + 1, transactionId |-> t, userId |-> u, accountId |-> a,
                     amount |-> amt, currency |-> c]
    /\ UNCHANGED <<bootVars, windowVars, scoreVars, activeVars, geoVars, recVars, decVars>>
    /\ UNCHANGED <<cacheVars, caseVars, pipeVars>>

\* FraudHandler.AnalyzeTransaction, ToInput failed: 400 Bad Request
BadRequest ==
    /\ httpReq.n = reqs + 1
    /\ ~ToInput(httpReq).ok
    /\ reqs' = reqs + 1
    /\ last' = [NoResponse EXCEPT !.tx = reqs + 1, !.outcome = "badRequest"]
    /\ UNCHANGED <<dbUp, redisUp, activeRules, window, devices, locations, decisions, pending>>
    /\ UNCHANGED <<cacheVars, caseVars, auxVars>>

\* FraudHandler.AnalyzeTransaction, ToInput succeeded: the use case runs
Serve ==
    /\ httpReq.n = reqs + 1
    /\ ToInput(httpReq).ok
    /\ \E user \in PipeUsers :
         Execute(MaxReq, user, ToInput(httpReq).amount, NONE, NoDevice, FALSE, 12, "none")

NextHandler == Decode \/ BadRequest \/ Serve \/ RunRecorder

HttpIdle == httpReq = NoRequest

\* A user with history in Redis: a full velocity window and device set.
BusyWindow == {[tx |-> 0 - i, amount |-> 100] : i \in 1..SeededMaxTransactions}
BusyDevices == {100 + i : i \in 1..SeededMaxDevices}

\* After main has wired the service. PostgreSQL and Redis outlive the process:
\* their tables and keys may hold earlier data; the mock repositories start
\* empty with the seeded rules.
PipeBoot ==
    /\ dbUp \in BOOLEAN
    /\ redisUp \in BOOLEAN
    /\ activeRules \in IF dbUp THEN {"seeded", "manyGeo"} ELSE {"seeded"}
    /\ \E busy \in IF redisUp THEN BOOLEAN ELSE {FALSE} :
         /\ window = [u \in PipeUsers |-> IF busy THEN BusyWindow ELSE {}]
         /\ devices = [u \in PipeUsers |-> IF busy THEN BusyDevices ELSE {}]
         /\ locations = [u \in PipeUsers |-> IF busy THEN {"US"} ELSE {}]
    /\ cases \in IF dbUp THEN {<<>>, <<NewFraudCase(0, "u1", "high")>>} ELSE {<<>>}
    /\ decisions = <<>>
    /\ pending = {}
    /\ reqs = 0
    /\ last = NoResponse

\* The pipeline at rest after main chose the repositories: PostgreSQL, or the
\* Mock* ones when the database is unreachable.
PipeWired ==
    /\ dbUp \in BOOLEAN
    /\ redisUp = TRUE
    /\ activeRules = "seeded"
    /\ window = [u \in PipeUsers |-> {}]
    /\ devices = [u \in PipeUsers |-> {}]
    /\ locations = [u \in PipeUsers |-> {}]
    /\ decisions = <<>>
    /\ pending = {}
    /\ reqs = 0
    /\ last = NoResponse

\* The pipeline at rest, for the specifications that do not exercise it.
PipeIdle ==
    /\ dbUp = TRUE
    /\ redisUp = TRUE
    /\ activeRules = "seeded"
    /\ window = [u \in PipeUsers |-> {}]
    /\ devices = [u \in PipeUsers |-> {}]
    /\ locations = [u \in PipeUsers |-> {}]
    /\ decisions = <<>>
    /\ pending = {}
    /\ reqs = 0
    /\ last = NoResponse

\* ------------------------------------------------------------------------
\* VelocityCache over one user's sorted set (SpecWindow)
\* ------------------------------------------------------------------------
\* Time in minutes: the instant of the calls, the window the counts are taken
\* over, the retention of RecordTransaction's clean-up (24 hours)
Clock == [now |-> 2000, window |-> 5, retention |-> 1440]

WindowTxs == {1, 2}                 \* transaction ids recorded
WindowAmounts == {100, 250}         \* amounts recorded
WindowStamps == {500, 1990, 2000}   \* input.Timestamp of the calls

\* Redis ZADD: the member is the string "txID|amount"; an existing member keeps
\* its place in the set and takes the new score
ZAdd(set, tx, amount, score) ==
    {e \in set : ~(e.tx = tx /\ e.amount = amount)}
        \cup {[tx |-> tx, amount |-> amount, score |-> score]}

\* Redis ZREMRANGEBYSCORE key -inf max
ZRemRangeByScore(set, max) == {e \in set : e.score > max}

\* Redis ZRANGEBYSCORE / ZCOUNT key min max: both ends inclusive
ZRangeByScore(set, min, max) == {e \in set : min <= e.score /\ e.score <= max}

\* VelocityCache.RecordTransaction
RecordTransaction(set, tx, amount, timestamp) ==
    ZRemRangeByScore(ZAdd(set, tx, amount, timestamp), Clock.now - Clock.retention)

\* VelocityCache.GetTransactionCount
GetTransactionCount(set) ==
    Cardinality(ZRangeByScore(set, Clock.now - Clock.window, Clock.now))

\* VelocityCache.GetTransactionSum
GetTransactionSum(set) ==
    SumAmounts(ZRangeByScore(set, Clock.now - Clock.window, Clock.now))

\* One call of RecordTransaction for the user, with the count and the sum of
\* the window read before and after it
Record ==
    /\ \E tx \in WindowTxs, amount \in WindowAmounts, timestamp \in WindowStamps :
         /\ zset' = RecordTransaction(zset, tx, amount, timestamp)
         /\ zlast' = [tx |-> tx, amount |-> amount, timestamp |-> timestamp,
                       repeated |-> \E e \in zset : e.tx = tx,
                       same |-> [tx |-> tx, amount |-> amount, score |-> timestamp] \in zset,
                       countBefore |-> GetTransactionCount(zset),
                       countAfter |-> GetTransactionCount(zset'),
                       sumBefore |-> GetTransactionSum(zset),
                       sumAfter |-> GetTransactionSum(zset')]
    /\ UNCHANGED <<bootVars, scoreVars, activeVars, httpVars, geoVars, recVars, decVars>>
    /\ UNCHANGED <<cacheVars, caseVars, pipeVars>>

NextWindow == Record

\* No call yet: the key does not exist
WindowIdle ==
    /\ zset = {}
    /\ zlast = [tx |-> 0, amount |-> 0, timestamp |-> 0, repeated |-> FALSE,
                same |-> FALSE, countBefore |-> 0, countAfter |-> 0,
                sumBefore |-> 0, sumAfter |-> 0]

\* ------------------------------------------------------------------------
\* Evaluation and aggregation as functions of their inputs (SpecScore)
\* ------------------------------------------------------------------------
\* Rules the rule API stores (Service.validateRule checks type, severity and
\* action, not the values of the config): the seeded ones and a velocity rule
\* whose max_transactions is negative, a merchant rule, and an amount rule
\* disabled after the engine cached the list (the cache is kept for cacheTTL
\* whatever the other replicas write).
RuleChoices ==
    {SeededRules[i] : i \in 1..Len(SeededRules)}
        \cup {[RuleDefaults EXCEPT !.name = "burst", !.type = "velocity",
                                   !.action = "review", !.maxTransactions = -10],
              [RuleDefaults EXCEPT !.name = "risky_merchant", !.type = "merchant",
                                   !.action = "review"],
              [RuleDefaults EXCEPT !.name = "small_amount", !.type = "amount",
                                   !.action = "block", !.maxAmount = 50,
                                   !.enabled = FALSE]}

RECURSIVE RuleLists(_)
RuleLists(n) ==
    IF n = 0 THEN {<<>>}
    ELSE RuleLists(n - 1)
           \cup {Append(l, r) : l \in {x \in RuleLists(n - 1) : Len(x) = n - 1},
                                r \in RuleChoices}

\* Weights an operator can configure (fraud.*_weight), 1e-2 units
WeightChoices ==
    {DefaultScoreWeights,
     [velocity |-> 40, amount |-> 30, geographic |-> 10, device |-> 5,
      merchant |-> 5, behavioral |-> 5, ml |-> 5]}

Strategies == {"weighted_average", "max_score", "bayesian"}

\* Transactions of the user the window store counts
CountChoices == {0, 5}

\* RuleEvaluationContext of the request, as Execute builds it
ScoreCtx(in) ==
    [tx |-> 1, user |-> "u1", amount |-> in.request.amount, country |-> in.request.country,
     device |-> in.request.device, trusted |-> in.request.trusted,
     merchant |-> in.merchant,
     hour |-> in.request.hour, averageTransaction |-> 0, recent |-> in.count,
     lastLocation |-> NONE, impossible |-> FALSE]

\* Merchants of a request: none, an ordinary one, one flagged high risk, one
\* with a high-risk category code
MerchantChoices == {NONE, "ordinary", "highRisk", "highRiskMCC"}

\* What the window-store calls return: every call fails or none does; the
\* user's device and location are known or not (in.known)
ScoreIo(in) ==
    [velocityCache |-> TRUE, deviceCache |-> TRUE, locationCache |-> TRUE,
     countErr |-> in.storeFails, count |-> in.count,
     sumErr |-> in.storeFails, sum |-> in.count * 100,
     knownLocationErr |-> in.storeFails, knownLocation |-> in.known,
     knownDeviceErr |-> in.storeFails, knownDevice |-> in.known,
     deviceCountErr |-> in.storeFails, deviceCount |-> 1]

NotScored ==
    [done |-> FALSE, results |-> <<>>, score |-> 0, risk |-> NONE, decision |-> NONE,
     confidence |-> 0, contributions |-> {}]

\* Service.AnalyzeTransaction up to the FraudDecision it builds: Engine.Evaluate,
\* AggregateRuleResults, determineDecision, calculateConfidence
Analyze ==
    /\ ~scoreOut.done
    /\ LET results == Evaluate(scoreIn.rules, ScoreCtx(scoreIn), ScoreIo(scoreIn))
           score == AggregateRuleResults(results, scoreIn.weights, scoreIn.strategy)
       IN scoreOut' = [done |-> TRUE, results |-> results, score |-> score,
                       risk |-> getRiskLevel(score),
                       decision |-> determineDecision(score),
                       confidence |-> calculateConfidence(results),
                       contributions |-> RuleContributions(results, scoreIn.weights)]
    /\ UNCHANGED scoreIn
    /\ UNCHANGED <<bootVars, windowVars, activeVars, httpVars, geoVars, recVars, decVars>>
    /\ UNCHANGED <<cacheVars, caseVars, pipeVars>>

NextScore == Analyze

ScoreInputs ==
    /\ scoreIn \in [rules : RuleLists(MaxRuleList), request : Requests,
                     count : CountChoices, weights : WeightChoices,
                     strategy : Strategies, merchant : MerchantChoices,
                     storeFails : BOOLEAN, known : {TRUE}]
    /\ scoreOut = NotScored

\* The six rule families in the order of fraud.RuleType
Families == <<"velocity", "amount", "geographic", "device", "merchant", "behavioral">>

\* A device rule the rule API stores with block_new_devices set
StrictDeviceRule ==
    [RuleDefaults EXCEPT !.name = "strict_device", !.type = "device", !.action = "block",
                         !.requireTrustedDevice = TRUE, !.blockNewDevices = TRUE]

\* Active rule lists with at most one rule of each family: for every family
\* none or one of the enabled rules of RuleChoices and StrictDeviceRule
RECURSIVE OnePerFamily(_)
OnePerFamily(n) ==
    IF n = 0 THEN {<<>>}
    ELSE LET shorter == OnePerFamily(n - 1)
             choices == {r \in RuleChoices \cup {StrictDeviceRule} :
                           r.type = Families[n] /\ r.enabled}
         IN shorter \cup {Append(l, r) : l \in shorter, r \in choices}

\* Requests as in Requests, and one that drives every seeded rule to its
\* highest score: five times max_amount, a blocked country, an untrusted
\* device, a night hour
WiredRequests ==
    Requests \cup {[amount |-> 5 * SeededMaxAmount, country |-> "KP", device |-> 1,
                    trusted |-> FALSE, hour |-> 3]}

\* The inputs of Analyze under the service as main wires it: NewService's
\* weighted_average strategy, the weights of the configuration
WiredInputs ==
    /\ scoreIn \in [rules : OnePerFamily(Len(Families)), request : WiredRequests,
                     count : {0, SeededMaxTransactions, 2 * SeededMaxTransactions},
                     weights : WeightChoices, strategy : {scoringStrategy},
                     merchant : MerchantChoices, storeFails : {FALSE},
                     known : BOOLEAN]
    /\ scoreOut = NotScored

\* Nothing evaluated: the specifications that do not exercise the functions
ScoreIdle ==
    /\ scoreIn = [rules |-> <<>>, request |-> CHOOSE r \in Requests : TRUE,
                  count |-> 0, weights |-> DefaultScoreWeights,
                  strategy |-> scoringStrategy, merchant |-> NONE,
                  storeFails |-> FALSE, known |-> TRUE]
    /\ scoreOut = NotScored

\* ------------------------------------------------------------------------
\* A rule's activity window: Rule.IsActive and RuleRepository.ListActive
\* (SpecActive)
\* ------------------------------------------------------------------------
NoExpiry == -1                   \* Rule.ExpiresAt == nil / expires_at IS NULL
Instants == 0..4                 \* instants of the clock

\* Rule.IsActive at instant t
IsActive(rule, t) ==
    IF ~rule.enabled THEN FALSE
    ELSE IF t < rule.effectiveAt THEN FALSE
    ELSE IF rule.expiresAt # NoExpiry /\ t > rule.expiresAt THEN FALSE
    ELSE TRUE

\* postgres RuleRepository.ListActive at instant t: the WHERE clause
\* enabled AND effective_at <= now AND (expires_at IS NULL OR expires_at > now)
ListActiveWhere(rule, t) ==
    /\ rule.enabled
    /\ rule.effectiveAt <= t
    /\ (rule.expiresAt = NoExpiry \/ rule.expiresAt > t)

\* Rule.SetExpiration
SetExpiration ==
    /\ ~activeOut.done
    /\ \E t \in Instants : ruleRow' = [ruleRow EXCEPT !.expiresAt = t]
    /\ UNCHANGED <<now, activeOut>>
    /\ UNCHANGED <<bootVars, windowVars, scoreVars, httpVars, geoVars, recVars, decVars>>
    /\ UNCHANGED <<cacheVars, caseVars, pipeVars>>

\* The same stored rule asked at the same instant: Engine.EvaluateRule asks
\* rule.IsActive(), Engine.GetActiveRules asks the repository's ListActive
CheckActive ==
    /\ ~activeOut.done
    /\ activeOut' = [done |-> TRUE, isActive |-> IsActive(ruleRow, now),
                      listed |-> ListActiveWhere(ruleRow, now)]
    /\ UNCHANGED <<ruleRow, now>>
    /\ UNCHANGED <<bootVars, windowVars, scoreVars, httpVars, geoVars, recVars, decVars>>
    /\ UNCHANGED <<cacheVars, caseVars, pipeVars>>

NextActive == SetExpiration \/ CheckActive

\* fraud.NewRule (enabled, no expiry) or a row written through the rule API
ActiveInputs ==
    /\ ruleRow \in [enabled : BOOLEAN, effectiveAt : Instants, expiresAt : {NoExpiry}]
    /\ now \in Instants
    /\ activeOut = [done |-> FALSE, isActive |-> FALSE, listed |-> FALSE]

ActiveIdle ==
    /\ ruleRow = [enabled |-> TRUE, effectiveAt |-> 0, expiresAt |-> NoExpiry]
    /\ now = 0
    /\ activeOut = [done |-> FALSE, isActive |-> FALSE, listed |-> FALSE]

\* ------------------------------------------------------------------------
\* Process start-up: config.Load, main's wiring of the thresholds (SpecBoot)
\* ------------------------------------------------------------------------
\* Values a threshold key can hold in the config file or the FRAUD_* environment,
\* in units of 1e-2
ThresholdChoices == {-10, 0, 40, 60, 80, 100}

\* Scores the service is asked to decide, in units of 1e-6
ServedScores == {0, 400000, 600000, 800000, 1000000}

\* Config.Validate, the checks on the Fraud section: each threshold within [0, 1],
\* challenge < review < block
Validate(c) ==
    IF c.block < 0 \/ c.block > 100 THEN "err"
    ELSE IF c.review < 0 \/ c.review > 100 THEN "err"
    ELSE IF c.challenge < 0 \/ c.challenge > 100 THEN "err"
    ELSE IF c.challenge >= c.review THEN "err"
    ELSE IF c.review >= c.block THEN "err"
    ELSE "ok"

\* config.Load as main calls it: the defaults overridden by what the file and the
\* environment hold (viper.Unmarshal), or an error when the file cannot be read;
\* on the error main logs a warning and goes on with config.DefaultConfig().
\* Neither Load nor main calls Validate.
LoadConfig ==
    /\ bootPc = "start"
    /\ \E readable \in BOOLEAN :
         IF readable
         THEN \E b \in ThresholdChoices, r \in ThresholdChoices, c \in ThresholdChoices :
                cfg' = [block |-> b, review |-> r, challenge |-> c]
         ELSE cfg' = DefaultThresholds
    /\ bootPc' = "loaded"
    /\ UNCHANGED <<thresholds, served>>
    /\ UNCHANGED <<cacheVars, caseVars, pipeVars, windowVars, scoreVars, activeVars, httpVars,
                   geoVars, recVars, decVars>>

\* main: fraudService.SetDecisionThresholds(cfg.Fraud.*), then the HTTP server starts
SetDecisionThresholds ==
    /\ bootPc = "loaded"
    /\ thresholds' = cfg
    /\ bootPc' = "serving"
    /\ UNCHANGED <<cfg, served>>
    /\ UNCHANGED <<cacheVars, caseVars, pipeVars, windowVars, scoreVars, activeVars, httpVars,
                   geoVars, recVars, decVars>>

\* One request reaches Service.determineDecision with an aggregated score
Decide ==
    /\ bootPc = "serving"
    /\ \E score \in ServedScores :
         served' = [score |-> score, decision |-> determineDecisionWith(thresholds, score)]
    /\ UNCHANGED <<bootPc, cfg, thresholds>>
    /\ UNCHANGED <<cacheVars, caseVars, pipeVars, windowVars, scoreVars, activeVars, httpVars,
                   geoVars, recVars, decVars>>

NextBoot == LoadConfig \/ SetDecisionThresholds \/ Decide

\* fraud.NewService: decisionThresholds = DefaultDecisionThresholds()
BootStart ==
    /\ bootPc = "start"
    /\ cfg = DefaultThresholds
    /\ thresholds = DefaultThresholds
    /\ served = [score |-> 0, decision |-> NONE]

\* The process as the other specifications see it: started with the defaults
BootDone ==
    /\ bootPc = "serving"
    /\ cfg = DefaultThresholds
    /\ thresholds = DefaultThresholds
    /\ served = [score |-> 0, decision |-> NONE]

\* ------------------------------------------------------------------------
\* Engine.evaluateGeographicRule over the travel from the last transaction's
\* location (SpecGeo). Distances in km, elapsed time in minutes.
\* ------------------------------------------------------------------------
\* Geographic rules the rule API stores with max_distance_km = 500: any action,
\* with and without allowed_countries and require_consistent
TravelRules ==
    {[RuleDefaults EXCEPT !.name = "travel", !.type = "geographic", !.action = a,
                          !.allowedCountries = al, !.requireConsistent = rc,
                          !.maxDistanceKm = 500] :
        a \in {"review", "challenge", "block"}, al \in {{}, {"US"}}, rc \in BOOLEAN}

\* haversineDistance(...) between the two locations, as the km it returns
Distances == {100, 1000}

\* evalCtx.Timestamp.Sub(lastTx.Timestamp) in minutes: the last transaction is
\* later, simultaneous, half an hour or ten hours earlier
Elapsed == {-60, 0, 30, 600}

\* speedKmH := distance / timeDiff.Hours(); speedKmH > 900. In floating point a
\* zero timeDiff gives +Inf for a positive distance, a negative one a negative speed.
SpeedExceeds(distance, minutes, limit) ==
    IF minutes = 0 THEN distance > 0
    ELSE IF minutes < 0 THEN FALSE
    ELSE distance * 60 > limit * minutes

\* distance > config.MaxDistanceKm and speedKmH > 900
ImpossibleTravel(rule, distance, minutes) ==
    distance > rule.maxDistanceKm /\ SpeedExceeds(distance, minutes, JetSpeedKmH)

\* The RuleEvaluationContext of the evaluation
GeoCtx(in) ==
    [country |-> in.country, recent |-> 1, lastLocation |-> in.lastLocation,
     impossible |-> ImpossibleTravel(in.rule, in.distance, in.minutes)]

\* What LocationCache.IsKnownLocation returns
GeoIo(in) ==
    [locationCache |-> TRUE, knownLocationErr |-> FALSE, knownLocation |-> in.known]

NotEvaluated == [done |-> FALSE, result |-> NotFired(RuleDefaults)]

CheckTravel ==
    /\ ~geoOut.done
    /\ geoOut' = [done |-> TRUE,
                  result |-> EvaluateRule(geoIn.rule, GeoCtx(geoIn), GeoIo(geoIn))]
    /\ UNCHANGED geoIn
    /\ UNCHANGED <<bootVars, windowVars, scoreVars, activeVars, httpVars, recVars, decVars>>
    /\ UNCHANGED <<cacheVars, caseVars, pipeVars>>

NextGeo == CheckTravel

GeoInputs ==
    /\ geoIn \in [rule : TravelRules, country : {"US", "FR"},
                   lastLocation : {"US"}, distance : Distances, minutes : Elapsed,
                   known : BOOLEAN]
    /\ geoOut = NotEvaluated

\* Nothing evaluated: the specifications that do not exercise the function
GeoIdle ==
    /\ geoIn = [rule |-> RuleDefaults, country |-> NONE, lastLocation |-> NONE,
                distance |-> 0, minutes |-> 0, known |-> FALSE]
    /\ geoOut = NotEvaluated

\* ------------------------------------------------------------------------
\* The goroutine of DetectFraudUseCase.Execute that records the transaction,
\* the device and the location (SpecRecorder). Each record call is a Redis
\* command sent with bgCtx := context.Background().
\* ------------------------------------------------------------------------
NoDeadline == -1                 \* a context without deadline: context.Background()
NoTimeout == -1                  \* redis.read_timeout: -1, the socket never times out

\* cfg.Redis.ReadTimeout as main passes it to redis.NewClient: the default, or
\* what the configuration file sets
ReadTimeouts == {RedisReadTimeout, NoTimeout}

\* The deadline a Redis command waits under: the context's deadline and the
\* client's read timeout, whichever comes first; none when there is neither.
CallDeadline(ctxDeadline, readTimeout) ==
    IF ctxDeadline = NoDeadline
    THEN (IF readTimeout = NoTimeout THEN NoDeadline ELSE readTimeout)
    ELSE IF readTimeout = NoTimeout THEN ctxDeadline
    ELSE Min(ctxDeadline, readTimeout)

\* bgCtx := context.Background(): the context of every call of the goroutine
bgCtx == [deadline |-> NoDeadline, parent |-> NONE]

\* A call returns when the store answers or its deadline passes; it blocks
\* for ever when the store never answers and there is no deadline.
Returns(ctx) ==
    recIn.answers \/ CallDeadline(ctx.deadline, recIn.readTimeout) # NoDeadline

\* One statement of the goroutine: the call is skipped when its cache is nil
\* or the input lacks the datum, else made under ctx and its error ignored.
RecorderCall(at, next, op, skipped, ctx) ==
    /\ rec.pc = at
    /\ IF skipped
       THEN rec' = [rec EXCEPT !.pc = next]
       ELSE /\ Returns(ctx)
            /\ rec' = [rec EXCEPT !.pc = next,
                                  !.calls = @ \cup {[op |-> op, ctx |-> ctx]}]
    /\ UNCHANGED recIn
    /\ UNCHANGED <<bootVars, windowVars, scoreVars, activeVars, httpVars, geoVars, decVars>>
    /\ UNCHANGED <<cacheVars, caseVars, pipeVars>>

\* uc.velocityCache.RecordTransaction(bgCtx, ...)
RecordTransactionCall ==
    RecorderCall("velocity", "device", "RecordTransaction", ~recIn.caches, bgCtx)

\* uc.deviceCache.RecordDeviceUsage(bgCtx, ...)
RecordDeviceUsageCall ==
    RecorderCall("device", "location", "RecordDeviceUsage",
                 ~recIn.caches \/ recIn.device = NoDevice, bgCtx)

\* uc.locationCache.RecordLocation(bgCtx, ...)
RecordLocationCall ==
    RecorderCall("location", "done", "RecordLocation",
                 ~recIn.caches \/ recIn.country = NONE, bgCtx)

\* Execute returns: defer cancel() cancels the request context
CancelRequest ==
    /\ rec.requestCtx = "live"
    /\ rec' = [rec EXCEPT !.requestCtx = "cancelled"]
    /\ UNCHANGED recIn
    /\ UNCHANGED <<bootVars, windowVars, scoreVars, activeVars, httpVars, geoVars, decVars>>
    /\ UNCHANGED <<cacheVars, caseVars, pipeVars>>

Recorder == RecordTransactionCall \/ RecordDeviceUsageCall \/ RecordLocationCall

NextRecorder ==
    \/ RecordTransactionCall
    \/ RecordDeviceUsageCall
    \/ RecordLocationCall
    \/ CancelRequest

\* The goroutine has just been launched (go func() {...}())
RecorderLaunched ==
    /\ recIn \in [device : {NoDevice, 1}, country : {NONE, "US"}, caches : BOOLEAN,
                   readTimeout : ReadTimeouts, answers : BOOLEAN]
    /\ rec = [pc |-> "velocity", calls |-> {}, requestCtx |-> "live"]

\* No goroutine: the specifications that do not exercise it
RecorderIdle ==
    /\ recIn = [device |-> NoDevice, country |-> NONE, caches |-> FALSE,
                readTimeout |-> RedisReadTimeout, answers |-> TRUE]
    /\ rec = [pc |-> "done", calls |-> {}, requestCtx |-> "cancelled"]

\* ------------------------------------------------------------------------
\* DecisionRepository (SpecDecisions): postgres.DecisionRepository when
\* PostgreSQL is up, MockDecisionRepository otherwise. Neither constrains
\* transaction_id to be unique (the column has a plain index).
\* ------------------------------------------------------------------------
\* Decision ids: uuid.New() draws them at random, so their order as primary
\* keys is unrelated to the order of the writes
DecisionIds == 1..MaxDecisions

DecisionTxs == {1, 2}

NoLookup == [tx |-> 0, found |-> FALSE, id |-> 0]

\* The rows of a transaction id
RowsOf(rows, tx) == {i \in 1..Len(rows) : rows[i].tx = tx}

\* DecisionRepository.Create / MockDecisionRepository.Create: a new row (a new
\* map entry) under the decision's own id
CreateDecision(id, tx, decision) ==
    /\ Len(decisionRows) < MaxDecisions
    /\ \A i \in 1..Len(decisionRows) : decisionRows[i].id # id
    /\ decisionRows' = Append(decisionRows, [id |-> id, tx |-> tx, decision |-> decision])
    /\ UNCHANGED lookup
    /\ UNCHANGED <<bootVars, windowVars, scoreVars, activeVars, httpVars, geoVars, recVars>>
    /\ UNCHANGED <<cacheVars, caseVars, pipeVars>>

\* The rows GetByTransactionID can return. postgres: db.First(&model,
\* "transaction_id = ?", id) is SELECT ... ORDER BY id LIMIT 1, the matching row
\* with the least primary key. Mock: for _, d := range r.decisions returns the
\* first match in the map's iteration order, which Go leaves unspecified.
FirstMatch(rows, tx) ==
    IF dbUp
    THEN {i \in RowsOf(rows, tx) : \A j \in RowsOf(rows, tx) : rows[i].id <= rows[j].id}
    ELSE RowsOf(rows, tx)

\* DecisionRepository.GetByTransactionID / MockDecisionRepository.GetByTransactionID
GetByTransactionID(tx) ==
    /\ IF RowsOf(decisionRows, tx) = {}
       THEN lookup' = [tx |-> tx, found |-> FALSE, id |-> 0]      \* ErrDecisionNotFound
       ELSE \E i \in FirstMatch(decisionRows, tx) :
              lookup' = [tx |-> tx, found |-> TRUE, id |-> decisionRows[i].id]
    /\ UNCHANGED decisionRows
    /\ UNCHANGED <<bootVars, windowVars, scoreVars, activeVars, httpVars, geoVars, recVars>>
    /\ UNCHANGED <<cacheVars, caseVars, pipeVars>>

NextDecisions ==
    \/ \E id \in DecisionIds, tx \in DecisionTxs, d \in {"allow", "block"} :
          CreateDecision(id, tx, d)
    \/ \E tx \in DecisionTxs : GetByTransactionID(tx)

\* An empty table, no call yet
DecisionsIdle ==
    /\ decisionRows = <<>>
    /\ lookup = NoLookup

\* ------------------------------------------------------------------------
\* Specifications
\* ------------------------------------------------------------------------
\* The parts of the module a specification does not exercise, at rest
AuxIdle == BootDone /\ WindowIdle /\ ScoreIdle /\ ActiveIdle /\ HttpIdle /\ GeoIdle /\ RecorderIdle /\ DecisionsIdle

Init == InitCache /\ InitCase /\ PipeIdle /\ AuxIdle

SpecCache == Init /\ [][NextCache]_vars

SpecCase == Init /\ [][NextCase]_vars

InitRefresh == InitCache /\ InitCase /\ PipeWired /\ AuxIdle

SpecRefresh == InitRefresh /\ [][NextCache]_vars

InitPipe == InitCache /\ InitCaseProcs /\ PipeBoot /\ AuxIdle

SpecPipe == InitPipe /\ [][NextPipe]_vars

SpecWindow == Init /\ [][NextWindow]_vars

SpecStream == InitPipe /\ [][NextStream]_vars

InitBoot ==
    /\ InitCache /\ InitCase /\ PipeIdle
    /\ BootStart /\ WindowIdle /\ ScoreIdle /\ ActiveIdle /\ HttpIdle /\ GeoIdle /\ RecorderIdle /\ DecisionsIdle

InitScore ==
    /\ InitCache /\ InitCase /\ PipeIdle
    /\ BootDone /\ WindowIdle /\ ScoreInputs /\ ActiveIdle /\ HttpIdle /\ GeoIdle /\ RecorderIdle /\ DecisionsIdle

InitActive ==
    /\ InitCache /\ InitCase /\ PipeIdle
    /\ BootDone /\ WindowIdle /\ ScoreIdle /\ ActiveInputs /\ HttpIdle /\ GeoIdle /\ RecorderIdle /\ DecisionsIdle

SpecHandler == InitPipe /\ [][NextHandler]_vars

SpecActive == InitActive /\ [][NextActive]_vars

SpecScore == InitScore /\ [][NextScore]_vars

InitWired ==
    /\ InitCache /\ InitCase /\ PipeIdle
    /\ BootDone /\ WindowIdle /\ WiredInputs /\ ActiveIdle /\ HttpIdle /\ GeoIdle
    /\ RecorderIdle /\ DecisionsIdle

SpecWired == InitWired /\ [][NextScore]_vars

SpecBoot == InitBoot /\ [][NextBoot]_vars

InitGeo ==
    /\ InitCache /\ InitCase /\ PipeIdle
    /\ BootDone /\ WindowIdle /\ ScoreIdle /\ ActiveIdle /\ HttpIdle /\ GeoInputs /\ RecorderIdle /\ DecisionsIdle

SpecGeo == InitGeo /\ [][NextGeo]_vars

InitRecorder ==
    /\ InitCache /\ InitCase /\ PipeIdle
    /\ BootDone /\ WindowIdle /\ ScoreIdle /\ ActiveIdle /\ HttpIdle /\ GeoIdle
    /\ RecorderLaunched /\ DecisionsIdle

InitDecisions == InitCache /\ InitCase /\ PipeWired /\ AuxIdle

SpecDecisions == InitDecisions /\ [][NextDecisions]_vars

\* The scheduler runs a goroutine that can take a step
SpecRecorder == InitRecorder /\ [][NextRecorder]_vars /\ WF_vars(Recorder)

\* The state right after Execute answered the request that follows five recorded
\* transactions of the same user inside the window, with nothing failing
SixthInWindow ==
    /\ redisUp
    /\ last.outcome # NONE
    /\ last.fault = "none"
    /\ window[last.user] = BusyWindow
    /\ \E t \in pending : t.tx = last.tx

\* C12: the sixth transaction of one user inside the window, with high_velocity
\* active (max 5 transactions, 5 minutes, action block), is answered with
\* decision block, high_velocity fired, metadata transaction_count 6 and limit 5.
C12_SixthTransactionBlocked ==
    SixthInWindow =>
        /\ last.outcome = "ok"
        /\ last.decision = "block"
        /\ \E i \in DOMAIN last.results :
              /\ last.results[i].name = "high_velocity"
              /\ last.results[i].fired
              /\ <<"transaction_count", 6>> \in last.results[i].metadata
              /\ <<"limit", SeededMaxTransactions>> \in last.results[i].metadata

\* State records of user u written by no recorder yet although Execute has
\* returned the decision of their request
InFlight(u) == {t \in pending : t.user = u}

\* C13: a window-store read made for a request misses at most one record of that
\* user whose decision was already returned: at any time at most one state
\* record per user is in flight.
C13_AtMostOneInFlight ==
    \A u \in PipeUsers :
        /\ Cardinality(InFlight(u)) <= 1
        /\ Cardinality({t \in InFlight(u) : t.tx < last.tx}) <= 1

\* A step in which RuleRepository.Update wrote rule id successfully, through
\* Engine.UpdateRule, Service.UpdateRule or Service.EnableRule
UpdateStored(id) ==
    /\ ruleStore[id].present
    /\ repoWrites' = repoWrites + 1
    /\ \/ \E p \in EngineCallers, en \in BOOLEAN, v \in {1, ruleStore[id].version} :
             UpdateRule(p, id, en, v)
       \/ \E p \in ServiceCallers, en \in BOOLEAN :
             ServiceUpdateRule(p, id, en, ruleStore[id].version)
       \/ \E p \in ServiceCallers : EnableRule(p, id)

\* C18: every successful update of a stored rule through RuleRepository.Update
\* (Engine.UpdateRule, Service.UpdateRule, Service.EnableRule) stores a version
\* strictly greater than the one stored before, and no step lowers a stored
\* version.
C18_UpdateIncrementsVersion ==
    [][\A id \in RuleIds :
         /\ ruleStore[id].present => ruleStore'[id].version >= ruleStore[id].version
         /\ UpdateStored(id) => ruleStore'[id].version > ruleStore[id].version]_vars

\* A request the API must refuse: an id that is no UUID, an amount that is no
\* decimal, or a currency that is not exactly 3 characters long
Malformed(req) ==
    \/ ~ParseUUID(req.transactionId).ok
    \/ ~ParseUUID(req.userId).ok
    \/ ~ParseUUID(req.accountId).ok
    \/ ~NewFromString(req.amount).ok
    \/ Len(req.currency) # 3

\* C19: a malformed request is answered with a client error before enrichment:
\* nothing is evaluated, no decision is persisted and no state is recorded for it.
C19_MalformedRejectedBeforeEnrichment ==
    (httpReq.n > 0 /\ httpReq.n = reqs /\ Malformed(httpReq)) =>
        /\ last.outcome = "badRequest"
        /\ last.results = <<>>
        /\ \A i \in DOMAIN decisions : decisions[i].tx # httpReq.n
        /\ \A t \in pending : t.tx # httpReq.n
        /\ \A u \in PipeUsers : \A e \in window[u] : e.tx # httpReq.n

\* ------------------------------------------------------------------------
\* Properties of the velocity window (SpecWindow)
\* ------------------------------------------------------------------------
\* C14: RecordTransaction is idempotent per (user, txId): the user's window
\* holds at most one entry per transaction id, and a call for a transaction id
\* already recorded changes neither the count nor the sum of the window.
C14_RecordIdempotentPerTx ==
    /\ \A tx \in WindowTxs : Cardinality({e \in zset : e.tx = tx}) <= 1
    /\ zlast.repeated =>
          /\ zlast.countAfter = zlast.countBefore
          /\ zlast.sumAfter = zlast.sumBefore

\* ------------------------------------------------------------------------
\* Properties of evaluation and aggregation (SpecScore)
\* ------------------------------------------------------------------------
\* The configured weight of a rule family
FamilyWeight(weights, type) ==
    CASE type = "velocity" -> weights.velocity
      [] type = "amount" -> weights.amount
      [] type = "geographic" -> weights.geographic
      [] type = "device" -> weights.device
      [] type = "merchant" -> weights.merchant
      [] OTHER -> weights.behavioral

\* C15: under weighted_average the weight applied to a fired rule is the
\* configured weight of the rule's family: every fired result contributes its
\* score times that weight, so families with different weights weigh differently.
C15_WeightIsFamilyWeight ==
    (scoreOut.done /\ scoreIn.strategy = "weighted_average") =>
        \A i \in DOMAIN scoreOut.results :
            scoreOut.results[i].fired =>
                \E kv \in scoreOut.contributions :
                    /\ kv[1] = scoreOut.results[i].name
                    /\ kv[2] = scoreOut.results[i].score
                                 * FamilyWeight(scoreIn.weights, scoreOut.results[i].type)

\* C16: with an empty active rule list the decision is allow with score 0, risk
\* level low and confidence 0, under each of the three aggregation strategies.
C16_EmptyRuleListAllowsWithZero ==
    (scoreOut.done /\ scoreIn.rules = <<>>) =>
        /\ scoreOut.decision = "allow"
        /\ scoreOut.score = 0
        /\ scoreOut.risk = "low"
        /\ scoreOut.confidence = 0

\* C20: the final score of every decision lies in [0, 1], for every list of
\* rule results the engine produces from a stored rule configuration and for
\* every aggregation strategy.
C20_FinalScoreWithinUnitInterval ==
    scoreOut.done => (0 <= scoreOut.score /\ scoreOut.score <= 1000000)

\* ------------------------------------------------------------------------
\* Properties of the activity window (SpecActive)
\* ------------------------------------------------------------------------
\* C17: a rule is active exactly when it is enabled and
\* effective_at <= now < expires_at; Rule.IsActive and RuleRepository.ListActive
\* give the same answer at every instant, now = expires_at included.
C17_IsActiveAgreesWithListActive ==
    activeOut.done =>
        /\ activeOut.isActive = activeOut.listed
        /\ activeOut.isActive =
              (/\ ruleRow.enabled
               /\ ruleRow.effectiveAt <= now
               /\ (ruleRow.expiresAt = NoExpiry \/ now < ruleRow.expiresAt))

\* ------------------------------------------------------------------------
\* Properties of start-up (SpecBoot)
\* ------------------------------------------------------------------------
\* C11: the service never decides a request while its thresholds violate
\* 0 < challenge < review < block < 1: the configuration is validated at boot and
\* a configuration that fails the validation never reaches the serving state.
C11_ServingThresholdsOrdered ==
    bootPc = "serving" =>
        /\ Validate(thresholds) = "ok"
        /\ 0 < thresholds.challenge
        /\ thresholds.challenge < thresholds.review
        /\ thresholds.review < thresholds.block
        /\ thresholds.block < 100

\* ------------------------------------------------------------------------
\* Properties of the rule cache (SpecCache)
\* ------------------------------------------------------------------------

\* C1: once Engine.AddRule/UpdateRule/DisableRule has returned successfully,
\* every GetActiveRules (Evaluate) that starts afterwards returns a list that
\* was fetched from the repository after that write, and the cache never holds
\* a snapshot older than a write whose Engine mutator has returned.
C1_NoStaleReadAfterEngineMutation ==
    /\ \A p \in Readers : got[p] >= 0 => got[p] >= need[p].engine
    /\ rulesCache # NIL => rulesCache.gen >= engineDone

\* A read that started after an Engine mutator had returned has itself returned.
C1_Witness ==
    \E p \in Readers : need[p].engine >= 1 /\ got[p] >= need[p].engine

\* C2: every rule write of the public surface invalidates the rule cache, so
\* the first Evaluate that starts after the write has returned uses a list
\* fetched after the write (the list contains the write).
C2_ServiceWriteVisibleToNextEvaluate ==
    \A p \in Readers : got[p] >= 0 => got[p] >= need[p].service

\* ------------------------------------------------------------------------
\* Properties of fraud cases (SpecCase)
\* ------------------------------------------------------------------------
AllowedEdges == {<<"open", "investigating">>, <<"investigating", "resolved">>,
                 <<"resolved", "closed">>, <<"open", "escalated">>,
                 <<"investigating", "escalated">>}

\* C8: every status change made by an Assign, Resolve, Close or Escalate call
\* (from the status of the case the call loaded to the status it stores) is
\* one of open -> investigating, investigating -> resolved, resolved -> closed,
\* open|investigating -> escalated; a closed case never changes status.
C8_StatusFollowsStateMachine ==
    [][\A p \in CaseProcs :
         (/\ kst[p].pc = "loaded" /\ kst'[p].pc = "idle"
          /\ kst[p].op \in {"assign", "resolve", "close", "escalate"}
          /\ lastCall'.res = "ok"
          /\ cases'[kst[p].id].status # kst[p].loaded.status)
         => <<kst[p].loaded.status, cases'[kst[p].id].status>> \in AllowedEdges]_vars

\* C9: Close returns success only when the case it loaded is resolved, Assign
\* returns an error when the case it loaded is closed or resolved, and a
\* Close or Assign call that returns an error leaves the stored cases as
\* they were.
C9_CloseAssignGuards ==
    [][\A p \in CaseProcs :
         (/\ kst[p].pc = "loaded" /\ kst'[p].pc = "idle"
          /\ kst[p].op \in {"close", "assign"})
         => /\ (kst[p].op = "close" /\ lastCall'.res = "ok")
                  => kst[p].loaded.status = "resolved"
            /\ (kst[p].op = "assign" /\ kst[p].loaded.status \in {"closed", "resolved"})
                  => lastCall'.res # "ok"
            /\ lastCall'.res # "ok" => cases' = cases]_vars

\* A closed case exists (a Close succeeded) and the call that returned last is
\* an Assign the entity rejected.
C9_Witness ==
    /\ lastCall = [op |-> "assign", res |-> "rejected"]
    /\ \E i \in 1..Len(cases) : cases[i].status = "closed"

\* C10: a coordinator trigger that completes appends the transaction id to the
\* first open case the query returned for the user and creates nothing when
\* the user had an open case; otherwise it creates exactly one case, with
\* status open, the decision's risk level and the transaction as its only id.
C10_AppendOrCreateOne ==
    [][\A p \in CaseProcs :
         (/\ kst[p].pc = "loaded" /\ kst'[p].pc = "idle"
          /\ kst[p].op = "trigger"
          /\ lastCall'.res = "ok")
         => IF kst[p].hadOpen
            THEN /\ Len(cases') = Len(cases)
                 /\ kst[p].id \in 1..Len(cases)
                 /\ kst[p].loaded.user = kst[p].user
                 /\ IsOpen(kst[p].loaded)
                 /\ cases'[kst[p].id].txs = Append(kst[p].loaded.txs, kst[p].tx)
                 /\ \A i \in 1..Len(cases) : i # kst[p].id => cases'[i] = cases[i]
            ELSE /\ Len(cases') = Len(cases) + 1
                 /\ \A i \in 1..Len(cases) : cases'[i] = cases[i]
                 /\ cases'[Len(cases')].status = "open"
                 /\ cases'[Len(cases')].user = kst[p].user
                 /\ cases'[Len(cases')].risk = kst[p].risk
                 /\ cases'[Len(cases')].txs = <<kst[p].tx>>]_vars

\* A trigger has created a case and a later trigger has appended to it.
C10_Witness ==
    /\ lastCall = [op |-> "trigger", res |-> "ok"]
    /\ \E i \in 1..Len(cases) : cases[i].txs = <<1, 2>>

\* ------------------------------------------------------------------------
\* Properties of the request pipeline (SpecPipe)
\* ------------------------------------------------------------------------
Results == {last.results[i] : i \in DOMAIN last.results}

StoreFaults == {"count", "knownLocation", "knownDevice", "deviceCount"}
DeadlineFaults == {"deadlineEnrich", "deadlineEvaluate", "deadlinePersist"}

\* The transaction of the last request left a trace in the stores.
Persisted(tx) == \E i \in 1..Len(decisions) : decisions[i].tx = tx
InSomeCase(tx) == \E i \in 1..Len(cases) : \E j \in 1..Len(cases[i].txs) :
                     cases[i].txs[j] = tx
Recorded(tx) ==
    \/ \E t \in pending : t.tx = tx
    \/ \E u \in PipeUsers : \E e \in window[u] : e.tx = tx

\* C3: under the default thresholds and wiring, a request for which the
\* geographic rule fired with the overriding action block (blocked country,
\* score 0.9, or impossible travel, score 0.85) is answered with decision block.
C3_OverridingBlockDecides ==
    (/\ last.outcome = "ok"
     /\ \E r \in Results : /\ r.type = "geographic" /\ r.fired /\ r.action = "block"
                           /\ r.score \in {9000, 8500})
    => last.decision = "block"

\* C4: when a single window-store call fails while a rule is evaluated, that
\* rule's result is fired = false, score = 0, action = allow, and the request
\* completes with a decision.
C4_StoreFailureFailsOpen ==
    (/\ last.fault \in StoreFaults
     /\ \E r \in Results : r.storeErr)
    => /\ last.outcome = "ok"
       /\ \A r \in Results : r.storeErr => (~r.fired /\ r.score = 0 /\ r.action = "allow")

\* C5: without a window store (Redis unreachable at boot) and with no other
\* fault, a request is answered with a decision and every velocity rule is
\* reported as not fired.
C5_NoStoreVelocityDisabled ==
    (~redisUp /\ last.outcome # NONE /\ last.fault = "none")
    => /\ last.outcome = "ok"
       /\ \A r \in Results : r.type = "velocity" => ~r.fired

\* C6: when DecisionRepository.Create fails, the request returns an error and
\* no Decision; no decision row, no fraud case and no window-store record
\* (made or still to be made by the recording goroutine) carries the
\* request's transaction.
C6_PersistFailureLeavesNothing ==
    last.persist = "failed"
    => /\ last.outcome = "error"
       /\ ~Persisted(last.tx)
       /\ ~InSomeCase(last.tx)
       /\ ~Recorded(last.tx)

\* Persist failed for a request that was scored review or block at high or
\* critical risk while the user had an open case.
C6_Witness ==
    /\ last.persist = "failed"
    /\ last.decision \in {"review", "block"}
    /\ last.risk \in {"high", "critical"}
    /\ GetOpenCasesByUser(cases, last.user) # {}

\* C7: when the request deadline expires before or during enrichment, rule
\* evaluation or persist, no Decision is returned and none is persisted.
C7_DeadlineMeansNoDecision ==
    (last.fault \in DeadlineFaults /\ last.outcome # NONE)
    => (last.outcome # "ok" /\ ~Persisted(last.tx))

\* The canonical order of the decisions: allow < challenge < review < block
DecisionRank(decision) ==
    CASE decision = "allow" -> 0
      [] decision = "challenge" -> 1
      [] decision = "review" -> 2
      [] OTHER -> 3

\* C21: the decision is monotone in the final score: of two scores decided one
\* after the other under the thresholds the service is configured with, the
\* greater score never gets the lesser decision (allow < challenge < review <
\* block).
C21_DecisionMonotoneInScore ==
    [][(served.decision # NONE /\ served'.decision # NONE /\ thresholds' = thresholds) =>
         /\ served.score <= served'.score =>
               DecisionRank(served.decision) <= DecisionRank(served'.decision)
         /\ served'.score <= served.score =>
               DecisionRank(served'.decision) <= DecisionRank(served.decision)]_vars

\* A score was decided as review by a service whose thresholds fail Validate
C21_Witness ==
    /\ bootPc = "serving"
    /\ served.decision = "review"
    /\ Validate(thresholds) = "err"

\* C22: every result EvaluateRule returns with fired = false has score 0 and
\* action allow, for all six families and on the branches inactive rule,
\* missing data, invalid config, store error and not triggered.
C22_NotFiredIsZeroAllow ==
    \A i \in 1..Len(scoreOut.results) :
        ~scoreOut.results[i].fired =>
            scoreOut.results[i].score = 0 /\ scoreOut.results[i].action = "allow"

\* A disabled block rule and a device rule whose store calls failed were
\* evaluated and did not fire.
C22_Witness ==
    /\ scoreOut.done
    /\ \E i, j \in 1..Len(scoreOut.results) :
          /\ scoreOut.results[i].name = "small_amount" /\ ~scoreOut.results[i].fired
          /\ scoreOut.results[j].type = "device" /\ scoreOut.results[j].storeErr
          /\ ~scoreOut.results[j].fired

\* C23: whenever the distance from the previous transaction's location exceeds
\* max_distance_km and the implied speed exceeds 900 km/h, the geographic
\* rule's result has action block, whatever rule.action, allowed_countries and
\* require_consistent are.
C23_ImpossibleTravelBlocks ==
    (geoOut.done /\ ImpossibleTravel(geoIn.rule, geoIn.distance, geoIn.minutes))
        => geoOut.result.action = "block"

\* C24: every call of the detached state-recording task runs under its own
\* deadline, independent of the request deadline, so the task terminates even
\* when the window store never answers.
C24_RecorderCallsBoundedAndTerminates ==
    /\ [](\A c \in rec.calls : c.ctx.deadline # NoDeadline /\ c.ctx.parent = NONE)
    /\ <>(rec.pc = "done")

C26_ReturnsFirstWritten ==
    (lookup.found /\ Cardinality(RowsOf(decisionRows, lookup.tx)) > 1) =>
        \E i \in RowsOf(decisionRows, lookup.tx) :
            /\ decisionRows[i].id = lookup.id
            /\ \A j \in RowsOf(decisionRows, lookup.tx) : i <= j

\* C27: at any time a user has at most one case in status open or
\* investigating created by the case coordinator, also when two high-risk
\* decisions for the same user are processed concurrently. (Every case of
\* SpecCase was created by the coordinator.)
C27_AtMostOneOpenCasePerUser ==
    \A user \in Users : Cardinality(GetOpenCasesByUser(cases, user)) <= 1

\* The transaction id is in the transaction list of some row of the table
ListedIn(tbl, tx) ==
    \E i \in 1..Len(tbl) : \E k \in 1..Len(tbl[i].txs) : tbl[i].txs[k] = tx

\* C28: every transaction id the case coordinator wrote stays in the
\* transaction list of some case, also under concurrent appends to the same
\* case and investigator rewrites: no step loses a listed transaction.
C28_NoLostTransaction ==
    [][\A tx \in 1..MaxTx : ListedIn(cases, tx) => ListedIn(cases', tx)]_vars

C30_NoImpossibleTravelThroughExecute ==
    /\ \A r \in Requests, fault \in Faults :
          LET ctx == enrichContext(0, "u1", r.amount, r.country, r.device, r.trusted,
                                   r.hour, fault)
          IN ctx.lastLocation = NONE /\ ~ctx.impossible
    /\ \A r \in Results : ~(r.type = "geographic" /\ r.fired /\ r.score = 8500)

\* A request from the US, above max_amount, by a user with transactions in
\* the window, evaluated against geographic rules with max_distance_km set:
\* answered with no geographic rule fired.
C30_Witness ==
    /\ last.outcome = "ok" /\ last.fault = "none"
    /\ activeRules = "manyGeo"
    /\ redisUp /\ window["u1"] # {}
    /\ \E r \in Results : r.type = "amount" /\ r.fired
    /\ \E r \in Results : r.type = "geographic"
    /\ \A r \in Results : r.type = "geographic" => ~r.fired

====
